---- MODULE Spec2Model ----
(***************************************************************************)
(* Log-packet decoding catalog of the QMDL offline parser                  *)
(* (src/qmdl-offline-parser/src/scat/parsers/qualcomm).                    *)
(*                                                                         *)
(* A framer delivers one LogPacket (log id + body bytes) at a time; the    *)
(* process table of a category module selects a decoder; the decoder       *)
(* returns a record, or None, or lets an exception propagate.              *)
(*                                                                         *)
(* Python semantics kept by the model:                                     *)
(*   - pkt_body[i] raises IndexError when i >= len(pkt_body);              *)
(*   - pkt_body[a:b] never raises and is clamped to the body;              *)
(*   - struct.unpack(fmt, s) raises struct.error when len(s) is not the    *)
(*     size of fmt;                                                        *)
(*   - try: ... except Exception: return None turns a raise into None.     *)
(* A field read is kept as the raw bytes it read together with the width   *)
(* the read needs; a read whose raw bytes are shorter than its width is a  *)
(* read past the end of the body, i.e. a raise.                            *)
(***************************************************************************)
EXTENDS Integers, Sequences, FiniteSets, TLC

\* ------------------------------------------------------------------ bounds
MaxBodyLen == 160        \* longest body the framer delivers in Spec
MaxTlvTail == 7          \* longest TLV area after the 15-byte QMI header
MaxTlvByte == 2          \* TLV-area bytes are drawn from 0..MaxTlvByte
MaxMccDigit == 1         \* MCC digits of an FPLMN entry are drawn from 0..MaxMccDigit
MaxMncDigit == 1         \* MNC digits of an FPLMN entry are drawn from 0..MaxMncDigit
MaxUnknownLen == 66      \* longest body handed to the fallback decoder
MaxPayloadLen == 5       \* longest event payload (the 17-byte QShrink payload apart)
MaxFlagsByte == 15      \* largest low byte of the status flags of a system status body
MaxStatusTail == 2      \* bytes a system status body carries after its 8th byte
MaxScaledLowByte == 15  \* low bytes 0..MaxScaledLowByte of a scaled 16-bit field are enumerated
MaxRuimPad == 2  \* APDU bytes between the instruction and the status words
MaxRepeatLen == 72  \* every body length 0..MaxRepeatLen is delivered to the looping decoders

FillBytes == {0, 1, 2, 255}   \* byte values a delivered body is filled with

\* ------------------------------------------------------------- byte helpers
Min(a, b) == IF a < b THEN a ELSE b

\* pkt_body[a:b] (0-based, end exclusive, clamped like a Python slice)
Slice(body, a, b) ==
    IF a >= Min(b, Len(body)) THEN <<>> ELSE SubSeq(body, a + 1, Min(b, Len(body)))

\* the bytes a read of width w at offset a gets: fewer than w past the end
Rd(body, a, w) == Slice(body, a, a + w)

\* `pkt_body[a] if len(pkt_body) > a else 0` and its struct.unpack siblings:
\* the read happens only under its guard, the default is w zero bytes
Zeros(w) == [i \in 1..w |-> 0]
RdIf(guard, body, a, w) == IF guard THEN Rd(body, a, w) ELSE Zeros(w)

\* little-endian value of raw bytes (used for counts and lengths only)
RECURSIVE LE(_)
LE(raw) == IF raw = <<>> THEN 0 ELSE Head(raw) + 256 * LE(Tail(raw))

\* one output field: its label, the raw bytes read for it, the width the read
\* needs, and the rendered text where the model renders it
LT(label, raw, w, text) == [label |-> label, raw |-> raw, w |-> w, text |-> text]
L(label, raw, w) == LT(label, raw, w, <<>>)
\* an output line that reads nothing from the body
T(label) == LT(label, <<>>, 0, <<>>)

\* a read reached past the end of the body (IndexError / struct.error)
Faulty(lines) == \E i \in DOMAIN lines : Len(lines[i].raw) < lines[i].w

\* ------------------------------------------------------------------ outcomes
None == [kind |-> "None"]
Raise(exc) == [kind |-> "Raise", exc |-> exc]
Stdout(fields) == [kind |-> "stdout", fields |-> fields]
QcatMsg(result) == [kind |-> "qcat_msg", result |-> result]
NoOutcome == [kind |-> "pending"]

\* the same body without its `except Exception: return None` handler
TryStdout_unhandled(lines) == IF Faulty(lines) THEN Raise("IndexError") ELSE Stdout(lines)

\* try: <lines> return {'stdout': ...} except Exception: return None
TryStdout(lines) == IF Faulty(lines) THEN None ELSE Stdout(lines)

\* conditional block of output lines
When(c, lines) == IF c THEN lines ELSE <<>>

\* the lines appended before the first faulting read (inner try/except that
\* keeps the output built so far)
RECURSIVE UntilFault(_)
UntilFault(lines) ==
    IF lines = <<>> THEN <<>>
    ELSE IF Len(Head(lines).raw) < Head(lines).w THEN <<>>
    ELSE <<Head(lines)>> \o UntilFault(Tail(lines))

\* a decoder that prints its title and `pkt_body[0] if len(pkt_body) > 0 else 0`
VersionLine(body) == L("Version", RdIf(Len(body) > 0, body, 0, 1), 1)

\* ---------------------------------------------------- fixed-point rendering
\* the two bytes of a 16-bit field read unsigned, as struct.unpack('<H') does
Int16_unsigned(raw) == LE(raw)

\* struct.unpack('<h', raw)[0]: two's-complement little-endian 16-bit value
Int16(raw) == IF LE(raw) >= 32768 THEN LE(raw) - 65536 ELSE LE(raw)

\* num / den (den > 0) rounded to the nearest integer, a tie to the even one:
\* the rounding of f"{x:.2f}" for a quotient that is exact in binary
RoundHalfEven(num, den) ==
    LET q == num \div den
        r == num - q * den
    IN  IF 2 * r < den THEN q
        ELSE IF 2 * r > den THEN q + 1
        ELSE IF q % 2 = 0 THEN q ELSE q + 1

\* f"{v / den:.<places>f}": the printed number as a count of units of
\* 10^-places (places decimals are printed)
FmtFixed(v, den, places) ==
    [places |-> places, scaled |-> RoundHalfEven(v * (10 ^ places), den)]

\* a signed 16-bit field printed as value / den with the given decimals
Scaled(label, raw, den, places) ==
    LT(label, raw, 2, IF Len(raw) < 2 THEN <<>> ELSE FmtFixed(Int16(raw), den, places))

\* =================================================== diaggnsslogparser.py
\* DiagGnssLogParser.parse_cgps_pdsm_nmea_report (0x1384)
parse_cgps_pdsm_nmea_report(body) ==
    LET n == Len(body)
        nmea_sentence_length == Rd(body, 9, 1)
        nmea_data ==
            IF n > 10 /\ nmea_sentence_length # <<>> /\ LE(nmea_sentence_length) > 0
            THEN Slice(body, 10, Min(10 + LE(nmea_sentence_length), n))
            ELSE <<>>
    IN  IF n < 8 THEN None
        ELSE TryStdout(
              << T("0x1384  CGPS PDSM External Status NMEA Report"),
                 L("Version", Rd(body, 0, 1), 1),
                 L("Client ID", Rd(body, 1, 4), 4),
                 L("NMEA Sentence Type", Rd(body, 5, 4), 4),
                 L("NMEA Sentence Length", nmea_sentence_length, 1) >>
              \o When(nmea_data # <<>>, << L("NMEA Sentence Data", nmea_data, 0) >>))

\* DiagGnssLogParser.parse_gnss_position_report (0x1476)
parse_gnss_position_report(body) ==
    LET n == Len(body)
    IN  IF n < 20 THEN None
        ELSE TryStdout(
              << T("0x1476  GNSS Position Report"),
                 L("Version", Rd(body, 0, 1), 1),
                 L("F Count", Rd(body, 1, 1), 1),
                 L("Position Source", RdIf(n > 2, body, 2, 1), 1) >>
              \o When(n >= 8,  << L("PosVelFlag_IntDB", Rd(body, 4, 4), 4) >>)
              \o When(n >= 16, << L("PosVelFlag2_IntDB", Rd(body, 8, 8), 8) >>)
              \o When(n >= 24, << L("PosVelFlag3_IntDB", Rd(body, 16, 8), 8) >>)
              \o When(n >= 26, << L("u_FixMode", RdIf(n > 24, body, 24, 1), 1),
                                  L("Failure Code", RdIf(n > 25, body, 25, 1), 1) >>)
              \o When(n >= 28, << L("Fix Events", Rd(body, 26, 2), 2) >>)
              \o When(n >= 34, << L("GPS Week Number", Rd(body, 28, 2), 2),
                                  L("GPS Milliseconds", Rd(body, 30, 4), 4) >>)
              \o When(n >= 42, << L("GLONASS Cycle Number 4 Years", Rd(body, 34, 2), 2),
                                  L("GLONASS Number Of Days In 4 Year", Rd(body, 36, 2), 2),
                                  L("GLONASS Milliseconds", Rd(body, 38, 4), 4) >>)
              \o When(n >= 44, << L("Number Of Positions", Rd(body, 42, 2), 2) >>)
              \o When(n >= 60, << L("Final Position Latitude", Rd(body, 44, 8), 8),
                                  L("Final Position Longitude", Rd(body, 52, 8), 8) >>)
              \o When(n >= 64, << L("Final Position Altitude", Rd(body, 60, 4), 4) >>)
              \o When(n >= 68, << L("Heading", Rd(body, 64, 2), 2),
                                  L("Heading Uncertainty In Radians",
                                    RdIf(n >= 70, body, 66, 4), 4) >>)
              \o When(n >= 82, << L("East Velocity", Rd(body, 70, 4), 4),
                                  L("North Velocity", Rd(body, 74, 4), 4),
                                  L("Vertical Velocity", Rd(body, 78, 4), 4) >>)
              \o When(n >= 94, << L("East Velocity Uncertainty", Rd(body, 82, 4), 4),
                                  L("North Velocity Uncertainty", Rd(body, 86, 4), 4),
                                  L("Vertical Velocity Uncertainty", Rd(body, 90, 4), 4) >>)
              \o When(n >= 102, << L("Clock Bias", Rd(body, 94, 8), 8) >>)
              \o When(n >= 106, << L("Clock Bias Uncertainty", Rd(body, 102, 4), 4) >>)
              \o When(n >= 138, << T("Inter GNSS TB {"),
                                   L("GPS To GLONASS Time Bias", Rd(body, 106, 8), 8),
                                   L("GPS To GLONASS Time Bias Uncertainty", Rd(body, 114, 4), 4),
                                   L("Filtered GPS To GLONASS Time Bias", Rd(body, 118, 8), 8),
                                   L("Filtered GPS To GLONASS Time Bias Uncertainty", Rd(body, 126, 4), 4),
                                   L("GPS To Beidou Time Bias (m)", Rd(body, 130, 8), 8) >>)
              \o When(n >= 154, << L("GPS To Beidou Time Bias Unc (m)", Rd(body, 138, 4), 4),
                                   L("Filtered GPS To Beidou Time Bias (m)", Rd(body, 142, 8), 8),
                                   L("Filtered GPS To Beidou Time Bias Unc (m)", Rd(body, 150, 4), 4),
                                   T("}") >>))

\* DiagGnssLogParser.parse_xo_frequency_estimation (0x13D1)
parse_xo_frequency_estimation(body) ==
    LET n == Len(body)
    IN  IF n < 4 THEN None
        ELSE TryStdout(
              << T("0x13D1  XO Frequency Estimation"), VersionLine(body) >>
              \o When(n >= 8,  << L("Frequency Estimate", Rd(body, 4, 4), 4) >>)
              \o When(n >= 12, << L("Frequency Uncertainty", Rd(body, 8, 4), 4) >>)
              \o When(n > 12 /\ Len(Slice(body, 12, n)) > 0,
                      << L("Frequency Table Data", Slice(body, 12, n), 0) >>))

\* the measurement loop of parse_gnss_measurement_report: entry i starts at
\* pos; the loop stops at the cap, at a short body, or at a raise in the entry
RECURSIVE gnss_measurement_entries(_, _, _, _)
gnss_measurement_entries(body, i, count, pos) ==
    LET n == Len(body)
        sv_id == L("SV ID", RdIf(pos < n, body, pos, 1), 1)
        constellation == L("Constellation", RdIf(pos + 1 < n, body, pos + 1, 1), 1)
        entry == << L("Measurement", <<i>>, 0), sv_id, constellation >>
                 \o When(pos + 8 <= n, << L("Pseudorange", Rd(body, pos + 2, 8), 8) >>)
    IN  IF i >= count \/ pos + 16 > n THEN <<>>
        ELSE IF Faulty(<<sv_id, constellation>>) THEN <<>>
        ELSE IF Faulty(entry) THEN UntilFault(entry)
        ELSE entry \o gnss_measurement_entries(body, i + 1, count, pos + 16)

\* DiagGnssLogParser.parse_gnss_measurement_report with range(num_measurements)
parse_gnss_measurement_report_uncapped(body) ==
    LET n == Len(body)
        num_measurements == RdIf(n > 1, body, 1, 1)
    IN  IF n < 4 THEN None
        ELSE TryStdout(
              << T("0x418B  GNSS Measurement Report"), VersionLine(body),
                 L("Number of Measurements", num_measurements, 1) >>
              \o gnss_measurement_entries(body, 0, LE(num_measurements), 4))

\* DiagGnssLogParser.parse_gnss_measurement_report (0x418B)
parse_gnss_measurement_report(body) ==
    LET n == Len(body)
        num_measurements == RdIf(n > 1, body, 1, 1)
    IN  IF n < 4 THEN None
        ELSE TryStdout(
              << T("0x418B  GNSS Measurement Report"), VersionLine(body),
                 L("Number of Measurements", num_measurements, 1) >>
              \o gnss_measurement_entries(body, 0, Min(LE(num_measurements), 32), 4))

\* ===================================================== diagrflogparser.py
\* DiagRfLogParser.parse_rf_asdiv (0x1841)
parse_rf_asdiv(body) ==
    LET n == Len(body)
    IN  IF n < 4 THEN None
        ELSE TryStdout(
              << T("0x1841  RF ASDIV"), VersionLine(body) >>
              \o When(n >= 8,  << L("ASDIV State", RdIf(n > 1, body, 1, 1), 1),
                                  L("Antenna Selection", RdIf(n > 2, body, 2, 1), 1),
                                  L("Switch Count", RdIf(n > 3, body, 3, 1), 1) >>)
              \o When(n >= 12, << Scaled("RSSI Antenna 0", RdIf(n >= 6, body, 4, 2), 16, 2),
                                  Scaled("RSSI Antenna 1", RdIf(n >= 8, body, 6, 2), 16, 2) >>))

\* the antenna table loop of parse_atuner_detune_info: one table row per
\* antenna, built after all the reads of the row; `except: break` drops the
\* row that raised.  Returns the rows and the offset the loop stopped at.
RECURSIVE atuner_antenna_rows(_, _, _, _)
atuner_antenna_rows(body, i, count, pos) ==
    LET n == Len(body)
        num_carriers == RdIf(pos + 2 < n, body, pos + 2, 1)
        head == << L("Antenna Number", RdIf(pos < n, body, pos, 1), 1),
                   L("RFM Mode", RdIf(pos + 1 < n, body, pos + 1, 1), 1),
                   L("Num Carriers", num_carriers, 1) >>
        carrier == << L("Carrier Id", RdIf(pos + 4 < n, body, pos + 4, 1), 1),
                      L("Band", RdIf(pos + 5 < n, body, pos + 5, 1), 1),
                      L("Device Type", RdIf(pos + 6 < n, body, pos + 6, 1), 1),
                      L("RFM Device", RdIf(pos + 7 < n, body, pos + 7, 1), 1),
                      L("Channel Number", RdIf(pos + 12 <= n, body, pos + 8, 4), 4) >>
        row == << L("Antenna Data row", <<i>>, 0) >> \o head
               \o When(~Faulty(head) /\ LE(num_carriers) > 0 /\ pos + 16 < n, carrier)
    IN  IF i >= count \/ pos + 20 > n THEN [fields |-> <<>>, pos |-> pos]
        ELSE IF Faulty(row) THEN [fields |-> <<>>, pos |-> pos]
        ELSE LET rest == atuner_antenna_rows(body, i + 1, count, pos + 20)
             IN  [fields |-> row \o rest.fields, pos |-> rest.pos]

\* the "Additional band entries" loop (j = 1..5) of the system data block
RECURSIVE atuner_band_extra(_, _, _)
atuner_band_extra(body, pos, j) ==
    LET n == Len(body)
        band_extra == RdIf(pos + 16 + j * 4 <= n, body, pos + 12 + j * 4, 4)
    IN  IF j > 5 THEN <<>>
        ELSE IF pos + 12 + j * 4 < n
             THEN IF Len(band_extra) < 4 THEN <<>>
                  ELSE When(band_extra # Zeros(4), << L("Band extra", band_extra, 4) >>)
                       \o atuner_band_extra(body, pos, j + 1)
             ELSE atuner_band_extra(body, pos, j + 1)

\* the system data block of parse_atuner_detune_info (try: ... except: pass)
atuner_system_data(body, pos) ==
    LET n == Len(body)
        row == << L("RFM Mode sys", RdIf(pos < n, body, pos, 1), 1),
                  L("Num Carriers sys", RdIf(pos + 1 < n, body, pos + 1, 1), 1),
                  L("PCC Band Index", RdIf(pos + 2 < n, body, pos + 2, 1), 1),
                  L("Band sys", RdIf(pos + 3 < n, body, pos + 3, 1), 1),
                  L("RX Channels", RdIf(pos + 8 <= n, body, pos + 4, 4), 4),
                  L("TX Channels", RdIf(pos + 12 <= n, body, pos + 8, 4), 4) >>
    IN  IF pos + 32 < n
        THEN IF Faulty(row) THEN <<>> ELSE row \o atuner_band_extra(body, pos, 1)
        ELSE <<>>

\* DiagRfLogParser.parse_atuner_detune_info (0x19ED)
parse_atuner_detune_info(body) ==
    LET n == Len(body)
        num_antennas == RdIf(n > 1, body, 1, 1)
        antennas == atuner_antenna_rows(body, 0, Min(LE(num_antennas), 16), 8)
    IN  IF n < 8 THEN None
        ELSE TryStdout(
              << T("0x19ED  Atuner Detune Info"),
                 L("Version", Rd(body, 0, 1), 1),
                 L("Num Antennas", num_antennas, 1),
                 L("Tuner System State", RdIf(n > 2, body, 2, 1), 1),
                 T("Antenna Data") >>
              \o antennas.fields
              \o << T("System Data") >>
              \o atuner_system_data(body, antennas.pos))

\* DiagRfLogParser.parse_rf_device_status (0x1849)
parse_rf_device_status(body) ==
    LET n == Len(body)
    IN  TryStdout(
          << T("0x1849  RF Device Status"), VersionLine(body) >>
          \o When(n >= 8, << L("Device ID", RdIf(n > 1, body, 1, 1), 1),
                             L("Status", RdIf(n > 2, body, 2, 1), 1) >>))

\* DiagRfLogParser.parse_rf_calibration_data (0x18F7)
parse_rf_calibration_data(body) ==
    LET n == Len(body)
    IN  TryStdout(
          << T("0x18F7  RF Calibration Data"), VersionLine(body) >>
          \o When(n >= 8, << L("Calibration Type", RdIf(n > 1, body, 1, 1), 1),
                             L("Band", RdIf(n > 2, body, 2, 1), 1) >>))

\* DiagRfLogParser.parse_rf_lte_tx_report (0x4179)
parse_rf_lte_tx_report(body) ==
    LET n == Len(body)
    IN  TryStdout(
          << T("0x4179  RF LTE TX Report"), VersionLine(body) >>
          \o When(n >= 12, << Scaled("TX Power", RdIf(n >= 6, body, 4, 2), 16, 2),
                              L("PA State", RdIf(n > 6, body, 6, 1), 1) >>))

\* DiagRfLogParser.parse_rf_lte_rx_report (0x41D4)
parse_rf_lte_rx_report(body) ==
    LET n == Len(body)
    IN  TryStdout(
          << T("0x41D4  RF LTE RX Report"), VersionLine(body) >>
          \o When(n >= 12, << Scaled("RX Power", RdIf(n >= 6, body, 4, 2), 16, 2),
                              L("LNA State", RdIf(n > 6, body, 6, 1), 1) >>))

\* the decoders that print only their title and the version byte:
\* DiagRfLogParser.parse_rf_gsm_tx_report and its siblings
parse_version_only(title, body) == TryStdout(<< T(title), VersionLine(body) >>)

\* the decoders that print their title and the version byte only, with the
\* title each one prints
version_only_titles ==
    "parse_rf_gsm_tx_report" :> "0x4186  RF GSM TX Report"
    @@ "parse_rf_wcdma_tx_report" :> "0x4134  RF WCDMA TX Report"
    @@ "parse_rf_power_report" :> "0x4178  RF Power Report"
    @@ "parse_rf_antenna_report" :> "0x4146  RF Antenna Report"
    @@ "parse_rf_power_management" :> "0x4189  RF Power Management"
    @@ "parse_rf_system_report" :> "0x4191  RF System Report"
    @@ "parse_rf_configuration_status" :> "0x4188  RF Configuration Status"
    @@ "parse_wcdma_advanced_report" :> "0x4222  WCDMA Advanced Report"
    @@ "parse_wcdma_diversity_report" :> "0x4322  WCDMA Diversity Report"
    @@ "parse_wcdma_calibration_report" :> "0x435D  WCDMA Calibration Report"
    @@ "parse_wcdma_tx_agc_adj" :> "0x41D3  WCDMA TX AGC Adj"
    @@ "parse_wcdma_rrc_states" :> "0x4345  WCDMA RRC States"
    @@ "parse_wcdma_rx_diversity" :> "0x4176  WCDMA RX Diversity"
    @@ "parse_wcdma_compressed_mode" :> "0x41B2  WCDMA Compressed Mode"
    @@ "parse_wcdma_rrc_ota_message" :> "0x19B5  WCDMA RRC OTA Message"

\* ------------------------------------------------------- decimal rendering
\* str(n) for n >= 0, as a sequence of decimal digits
RECURSIVE Digits(_)
Digits(n) == IF n < 10 THEN <<n>> ELSE Digits(n \div 10) \o <<n % 10>>

\* f"{n:0<width>d}": zero-padded on the left to at least width digits
RECURSIVE ZeroPad(_, _)
ZeroPad(ds, width) == IF Len(ds) >= width THEN ds ELSE ZeroPad(<<0>> \o ds, width)
FmtDec(n, width) == ZeroPad(Digits(n), width)

\* ================================================ diagumtsnaslogparser.py
\* the MCC computed from the 3 PLMN bytes (parse_umts_nas_fplmn_list)
plmn_mcc(plmn_bytes) ==
    LET mcc_digit1 == plmn_bytes[1] % 16
        mcc_digit2 == (plmn_bytes[1] \div 16) % 16
        mcc_digit3 == plmn_bytes[2] % 16
    IN  mcc_digit1 * 100 + mcc_digit2 * 10 + mcc_digit3

\* the MNC computed from the 3 PLMN bytes (parse_umts_nas_fplmn_list)
plmn_mnc(plmn_bytes) ==
    LET mnc_digit3 == (plmn_bytes[2] \div 16) % 16
        mnc_digit1 == plmn_bytes[3] % 16
        mnc_digit2 == (plmn_bytes[3] \div 16) % 16
    IN  IF mnc_digit3 = 15
        THEN mnc_digit1 * 10 + mnc_digit2
        ELSE mnc_digit3 * 100 + mnc_digit1 * 10 + mnc_digit2

\* f"FPLMN {i}: MCC={mcc:03d}, MNC={mnc:02d}": the two rendered numbers
plmn_text(plmn_bytes) ==
    [mcc |-> FmtDec(plmn_mcc(plmn_bytes), 3), mnc |-> FmtDec(plmn_mnc(plmn_bytes), 2)]

\* the FPLMN loop of parse_umts_nas_fplmn_list
RECURSIVE fplmn_entries(_, _, _, _)
fplmn_entries(body, i, count, pos) ==
    LET n == Len(body)
        plmn_bytes == Slice(body, pos, pos + 3)
    IN  IF i >= count \/ pos + 3 > n THEN <<>>
        ELSE When(Len(plmn_bytes) >= 3,
                  << LT("FPLMN", plmn_bytes, 0, plmn_text(plmn_bytes)) >>)
             \o fplmn_entries(body, i + 1, count, pos + 3)

\* DiagUmtsNasLogParser.parse_umts_nas_fplmn_list (0x7152)
parse_umts_nas_fplmn_list(body) ==
    LET n == Len(body)
        num_fplmns == RdIf(n > 1, body, 1, 1)
    IN  IF n < 4 THEN None
        ELSE TryStdout(
              << T("0x7152  UMTS NAS_FPLMN List"), VersionLine(body) >>
              \o When(n >= 8,
                      << L("Number of FPLMNs", num_fplmns, 1) >>
                      \o fplmn_entries(body, 0, Min(LE(num_fplmns), 16), 4)))

\* DiagUmtsNasLogParser.parse_umts_nas_reg_state (0x7132)
parse_umts_nas_reg_state(body) ==
    LET n == Len(body)
    IN  IF n < 4 THEN None
        ELSE TryStdout(
              << T("0x7132  UMTS NAS_REG State"), VersionLine(body) >>
              \o When(n >= 8,  << L("Registration State", RdIf(n > 1, body, 1, 1), 1),
                                  L("Registration Domain", RdIf(n > 2, body, 2, 1), 1) >>)
              \o When(n >= 12, << L("Location Area Code", RdIf(n >= 6, body, 4, 2), 2),
                                  L("Cell ID", RdIf(n >= 8, body, 6, 2), 2) >>))

\* DiagUmtsNasLogParser.parse_umts_nas_mm_state (0x7131)
parse_umts_nas_mm_state(body) ==
    LET n == Len(body)
    IN  IF n < 4 THEN None
        ELSE TryStdout(
              << T("0x7131  UMTS NAS_MM State"), VersionLine(body) >>
              \o When(n >= 8, << L("MM State", RdIf(n > 1, body, 1, 1), 1),
                                 L("MM Substate", RdIf(n > 2, body, 2, 1), 1) >>))

\* DiagUmtsNasLogParser.parse_umts_nas_gmm_state (0x7130)
parse_umts_nas_gmm_state(body) ==
    LET n == Len(body)
    IN  IF n < 4 THEN None
        ELSE TryStdout(
              << T("0x7130  UMTS NAS_GMM State"), VersionLine(body) >>
              \o When(n >= 8, << L("GMM State", RdIf(n > 1, body, 1, 1), 1),
                                 L("GMM Substate", RdIf(n > 2, body, 2, 1), 1) >>))

\* ========================================== diagcomprehensivelogparser.py
\* parse_system_status reading the status flags at offset 0 instead of 4
parse_system_status_flags_at_0(body) ==
    LET n == Len(body)
        status_flags == RdIf(n >= 8, body, 0, 4)
        low == IF status_flags = <<>> THEN 0 ELSE status_flags[1]
    IN  TryStdout(
          << T("0x0000  System Status"), VersionLine(body) >>
          \o When(n >= 8,
                  << L("Status Flags", status_flags, 4) >>
                  \o When(low % 2 = 1, << T("System State = ACTIVE") >>)
                  \o When((low \div 2) % 2 = 1, << T("Power State = ON") >>)
                  \o When((low \div 4) % 2 = 1, << T("RF State = ENABLED") >>)))

\* DiagComprehensiveLogParser.parse_system_status (0x0000)
parse_system_status(body) ==
    LET n == Len(body)
        status_flags == RdIf(n >= 8, body, 4, 4)
        low == IF status_flags = <<>> THEN 0 ELSE status_flags[1]
    IN  TryStdout(
          << T("0x0000  System Status"), VersionLine(body) >>
          \o When(n >= 8,
                  << L("Status Flags", status_flags, 4) >>
                  \o When(low % 2 = 1, << T("System State = ACTIVE") >>)
                  \o When((low \div 2) % 2 = 1, << T("Power State = ON") >>)
                  \o When((low \div 4) % 2 = 1, << T("RF State = ENABLED") >>)))

\* DiagComprehensiveLogParser.parse_rf_advanced_status (0x18C4)
parse_rf_advanced_status(body) ==
    LET n == Len(body)
    IN  TryStdout(
          << T("0x18C4  RF Advanced Status"), VersionLine(body) >>
          \o When(n >= 16,
                  << L("RF Band", RdIf(n > 1, body, 1, 1), 1),
                     L("Channel", RdIf(n >= 4, body, 2, 2), 2),
                     Scaled("Power Level", RdIf(n >= 6, body, 4, 2), 16, 2),
                     L("Frequency", RdIf(n >= 12, body, 8, 4), 4) >>
                  \o When(n >= 20, << Scaled("Temperature", RdIf(n >= 14, body, 12, 2), 10, 1),
                                      L("Voltage", RdIf(n >= 16, body, 14, 2), 2) >>)))

\* the band loop of parse_rf_configuration_report
RECURSIVE rf_band_entries(_, _, _, _)
rf_band_entries(body, i, count, pos) ==
    LET n == Len(body)
    IN  IF i >= count \/ pos + 8 > n THEN <<>>
        ELSE << L("Band", RdIf(pos < n, body, pos, 1), 1),
                L("Band Config", RdIf(pos + 8 <= n, body, pos + 4, 4), 4) >>
             \o rf_band_entries(body, i + 1, count, pos + 8)

\* DiagComprehensiveLogParser.parse_rf_configuration_report (0x18C3)
parse_rf_configuration_report(body) ==
    LET n == Len(body)
        num_bands == RdIf(n > 2, body, 2, 1)
    IN  TryStdout(
          << T("0x18C3  RF Configuration Report"), VersionLine(body) >>
          \o When(n >= 12,
                  << L("Configuration ID", RdIf(n > 1, body, 1, 1), 1),
                     L("Number of Bands", num_bands, 1) >>
                  \o rf_band_entries(body, 0, Min(LE(num_bands), 8), 8)))

\* DiagComprehensiveLogParser.parse_system_configuration (0x1C72)
parse_system_configuration(body) ==
    LET n == Len(body)
    IN  TryStdout(
          << T("0x1C72  System Configuration"), VersionLine(body) >>
          \o When(n >= 16, << L("Configuration Type", RdIf(n > 1, body, 1, 1), 1),
                              L("Configuration Value", RdIf(n >= 8, body, 4, 4), 4),
                              L("Timestamp", RdIf(n >= 12, body, 8, 4), 4) >>))

\* the subsystem loop of parse_system_status_extended
RECURSIVE subsystem_entries(_, _, _, _)
subsystem_entries(body, i, count, pos) ==
    LET n == Len(body)
    IN  IF i >= count \/ pos + 4 > n THEN <<>>
        ELSE << L("Subsystem", RdIf(pos < n, body, pos, 1), 1),
                L("Subsystem Status", RdIf(pos + 1 < n, body, pos + 1, 1), 1) >>
             \o subsystem_entries(body, i + 1, count, pos + 4)

\* DiagComprehensiveLogParser.parse_system_status_extended (0x1C70)
parse_system_status_extended(body) ==
    LET n == Len(body)
        subsystem_count == RdIf(n > 2, body, 2, 1)
    IN  TryStdout(
          << T("0x1C70  System Status Extended"), VersionLine(body) >>
          \o When(n >= 20,
                  << L("System State", RdIf(n > 1, body, 1, 1), 1),
                     L("Subsystem Count", subsystem_count, 1) >>
                  \o subsystem_entries(body, 0, Min(LE(subsystem_count), 8), 8)))

\* DiagComprehensiveLogParser.parse_system_performance (0x1C6E)
parse_system_performance(body) ==
    LET n == Len(body)
    IN  TryStdout(
          << T("0x1C6E  System Performance"), VersionLine(body) >>
          \o When(n >= 24, << L("CPU Usage", RdIf(n > 1, body, 1, 1), 1),
                              L("Memory Usage", RdIf(n >= 4, body, 2, 2), 2),
                              L("Throughput", RdIf(n >= 8, body, 4, 4), 4),
                              L("Latency", RdIf(n >= 10, body, 8, 2), 2) >>))

\* DiagComprehensiveLogParser.parse_power_management_report (0x1375)
parse_power_management_report(body) ==
    LET n == Len(body)
    IN  TryStdout(
          << T("0x1375  Power Management Report"), VersionLine(body) >>
          \o When(n >= 16,
                  << L("Power State", RdIf(n > 1, body, 1, 1), 1),
                     L("Voltage", RdIf(n >= 4, body, 2, 2), 2),
                     L("Current", RdIf(n >= 6, body, 4, 2), 2),
                     Scaled("Temperature", RdIf(n >= 8, body, 6, 2), 10, 1) >>
                  \o When(n >= 24,
                          << L("RF Power Consumption", RdIf(n >= 10, body, 8, 2), 2),
                             L("Baseband Power Consumption", RdIf(n >= 12, body, 10, 2), 2) >>)))

\* DiagComprehensiveLogParser.parse_rf_advanced_rx_report (0x41D6)
parse_rf_advanced_rx_report(body) ==
    LET n == Len(body)
    IN  TryStdout(
          << T("0x41D6  RF Advanced RX Report"), VersionLine(body) >>
          \o When(n >= 20,
                  << L("RX Chain", RdIf(n > 1, body, 1, 1), 1),
                     Scaled("RX Power", RdIf(n >= 4, body, 2, 2), 16, 2),
                     L("LNA Gain", RdIf(n > 4, body, 4, 1), 1),
                     L("Mixer Gain", RdIf(n > 5, body, 5, 1), 1) >>
                  \o When(n >= 32, << L("SNR", RdIf(n >= 10, body, 8, 2), 2),
                                      Scaled("RSSI", RdIf(n >= 12, body, 10, 2), 16, 2) >>)))

\* DiagComprehensiveLogParser.parse_rf_calibration_status (0x41CD)
parse_rf_calibration_status(body) ==
    LET n == Len(body)
    IN  TryStdout(
          << T("0x41CD  RF Calibration Status"), VersionLine(body) >>
          \o When(n >= 16, << L("Calibration Type", RdIf(n > 1, body, 1, 1), 1),
                              L("Calibration Status", RdIf(n > 2, body, 2, 1), 1),
                              L("Calibration Result", RdIf(n >= 6, body, 4, 2), 2) >>))


\* ========================================== diagwcdmaenhancedlogparser.py
\* the PDU loop of one RLC entity (j = 0 .. min(num_pdus, 4) - 1); returns the
\* fields and the offset the loop stopped at
RECURSIVE rlc_pdu_entries(_, _, _, _, _)
rlc_pdu_entries(body, j, count, pos, rlc_mode) ==
    LET n == Len(body)
        pdu_size_bits == RdIf(pos + 2 <= n, body, pos, 2)
        pdu_size_bytes == (LE(pdu_size_bits) + 7) \div 8
        raw_data == Slice(body, pos + 2, pos + 2 + Min(pdu_size_bytes, 16))
        analysis ==
            IF Len(raw_data) > 0 /\ rlc_mode = 2
            THEN IF raw_data[1] \div 128 = 1
                 THEN << T("DATA PDU") >>
                 ELSE << T("CTL PDU, Type = STATUS") >>
                      \o When(Len(raw_data) >= 4,
                              << T("SUFI[0]"),
                                 L("ACK, LSN", <<raw_data[3], raw_data[4]>>, 0) >>)
            ELSE <<>>
        pdu == << L("PDU", <<j>>, 0), L("PDU Size (in Bits)", pdu_size_bits, 2) >>
               \o When(pos + 2 + pdu_size_bytes <= n,
                       << L("Raw Data", raw_data, 0) >> \o analysis)
    IN  IF j >= count \/ pos + 8 > n THEN [fields |-> <<>>, pos |-> pos, raised |-> FALSE]
        ELSE IF Faulty(pdu) THEN [fields |-> UntilFault(pdu), pos |-> pos, raised |-> TRUE]
        ELSE LET rest == rlc_pdu_entries(body, j + 1, count, pos + 2 + pdu_size_bytes, rlc_mode)
             IN  [fields |-> pdu \o rest.fields, pos |-> rest.pos, raised |-> rest.raised]

\* the entity loop of parse_wcdma_flexible_dl_rlc_am_pdu; `except Exception:
\* break` keeps what the entity printed before the raise
RECURSIVE rlc_entity_entries(_, _, _, _)
rlc_entity_entries(body, i, count, pos) ==
    LET n == Len(body)
        num_pdus == RdIf(pos + 1 < n, body, pos + 1, 1)
        rlc_mode == RdIf(pos + 3 < n, body, pos + 3, 1)
        reads == << L("Data Logical Channel ID", RdIf(pos < n, body, pos, 1), 1),
                    L("Number of PDUs Logged", num_pdus, 1),
                    L("LI Length", RdIf(pos + 2 < n, body, pos + 2, 1), 1),
                    L("RLC Mode", rlc_mode, 1) >>
        pdus == rlc_pdu_entries(body, 0, Min(LE(num_pdus), 4), pos + 4, LE(rlc_mode))
        entity == << L("Entity Info", <<i>>, 0) >> \o reads
                  \o << L("Entity Data", <<i>>, 0), T("Entity Index") >>
    IN  IF i >= count \/ pos + 8 > n THEN <<>>
        ELSE IF Faulty(reads) THEN <<>>
        ELSE IF pdus.raised THEN entity \o pdus.fields
        ELSE entity \o pdus.fields \o rlc_entity_entries(body, i + 1, count, pdus.pos)

\* DiagWcdmaEnhancedLogParser.parse_wcdma_flexible_dl_rlc_am_pdu (0x418B)
parse_wcdma_flexible_dl_rlc_am_pdu(body) ==
    LET n == Len(body)
        num_entities == RdIf(n > 2, body, 2, 1)
    IN  IF n < 8 THEN None
        ELSE TryStdout(
              << T("0x418B  WCDMA Flexible DL RLC AM PDU"),
                 L("Subscription ID", RdIf(n > 0, body, 0, 1), 1),
                 L("Version", RdIf(n > 1, body, 1, 1), 1),
                 L("Number of DL Entities", num_entities, 1) >>
              \o rlc_entity_entries(body, 0, Min(LE(num_entities), 8), 4))

\* the PDU loop of parse_wcdma_mac_ehs_reassembly
RECURSIVE mac_ehs_pdu_entries(_, _, _, _)
mac_ehs_pdu_entries(body, i, count, pos) ==
    LET n == Len(body)
        pdu_info == RdIf(pos + 10 <= n, body, pos, 10)
        pdu == << L("PDU", <<i>>, 0),
                  L("TSN", Slice(pdu_info, 0, 4), 0),
                  L("Size", Slice(pdu_info, 4, 6), 0),
                  L("Queue ID", Slice(pdu_info, 6, 8), 0),
                  L("Status", Slice(pdu_info, 8, 10), 0) >>
    IN  IF i >= count \/ pos + 12 > n THEN <<>>
        ELSE IF Len(pdu_info) < 10 THEN <<>>
        ELSE pdu \o mac_ehs_pdu_entries(body, i + 1, count, pos + 10)

\* DiagWcdmaEnhancedLogParser.parse_wcdma_mac_ehs_reassembly (0x421E)
parse_wcdma_mac_ehs_reassembly(body) ==
    LET n == Len(body)
        num_pdus == RdIf(n > 3, body, 3, 1)
    IN  IF n < 8 THEN None
        ELSE TryStdout(
              << T("0x421E  WCDMA MAC-ehs Reassembly"),
                 L("Subscription ID", RdIf(n > 0, body, 0, 1), 1),
                 L("Version", RdIf(n > 1, body, 1, 1), 1),
                 L("Active MAC", RdIf(n > 2, body, 2, 1), 1),
                 L("Number of PDUs", num_pdus, 1) >>
              \o When(n >= 8, << L("E-FACH TM mode", RdIf(n > 4, body, 4, 1), 1) >>)
              \o mac_ehs_pdu_entries(body, 0, Min(LE(num_pdus), 16), 8))

\* DiagWcdmaEnhancedLogParser.parse_wcdma_tx_report (0x4134)
parse_wcdma_tx_report(body) ==
    LET n == Len(body)
    IN  TryStdout(
          << T("0x4134  WCDMA TX Report"), VersionLine(body) >>
          \o When(n >= 12, << Scaled("TX Power", RdIf(n >= 6, body, 4, 2), 16, 2),
                              L("PA State", RdIf(n > 6, body, 6, 1), 1) >>))


\* DiagWcdmaEnhancedLogParser.parse_wcdma_multi_carrier_eul (0x4344)
parse_wcdma_multi_carrier_eul(body) ==
    LET n == Len(body)
    IN  TryStdout(
          << T("0x4344  WCDMA Multi Carrier EUL Combined L1 MAC"),
             L("Subscription ID", RdIf(n > 0, body, 0, 1), 1),
             L("Version", RdIf(n > 1, body, 1, 1), 1) >>
          \o When(n >= 8,
                  << L("Carrier State", RdIf(n > 2, body, 2, 1), 1),
                     T("Primary Carrier:") >>
                  \o When(n >= 16,
                          << L("Number of Samples", RdIf(n > 8, body, 8, 1), 1),
                             L("TTI", RdIf(n > 9, body, 9, 1), 1),
                             L("ETFCI Table", RdIf(n > 10, body, 10, 1), 1),
                             L("Start CFN", RdIf(n >= 14, body, 12, 2), 2),
                             L("Number of Cells", RdIf(n > 14, body, 14, 1), 1) >>)))


\* =========================================== diagwcdmasignalingparser.py
\* the SIB loop of parse_wcdma_signaling_messages
RECURSIVE sib_entries(_, _, _, _)
sib_entries(body, i, count, pos) ==
    LET n == Len(body)
        sib_len == RdIf(pos + 1 < n, body, pos + 1, 1)
    IN  IF i >= count \/ pos + 4 > n THEN <<>>
        ELSE << L("sib type", RdIf(pos < n, body, pos, 1), 1),
                L("sib length", sib_len, 1) >>
             \o sib_entries(body, i + 1, count, pos + 4 + LE(sib_len))

\* the payload type chosen from pkt_body[16]
signaling_payload_type(body) ==
    LET n == Len(body)
        payload_indicator == LE(RdIf(n > 16, body, 16, 1))
    IN  IF n > 16 /\ payload_indicator = 1 THEN "First Segment"
        ELSE IF n > 16 /\ payload_indicator = 2 THEN "Subsequent Segment"
        ELSE IF n > 16 /\ payload_indicator = 3 THEN "Last Segment Short"
        ELSE IF n > 16 /\ payload_indicator = 4 THEN "Last Segment Long"
        ELSE "Complete SIB List"

\* DiagWcdmaSignalingParser.parse_wcdma_signaling_messages (0x412F)
parse_wcdma_signaling_messages(body) ==
    LET n == Len(body)
        payload_type == signaling_payload_type(body)
        num_sibs == RdIf(n > 22, body, 22, 1)
    IN  IF n < 16 THEN None
        ELSE TryStdout(
              << L("0x412F  WCDMA Signaling Messages", RdIf(n > 16, body, 16, 1), 1),
                 L("Subscription ID", Rd(body, 0, 1), 1),
                 L("Channel Type", RdIf(n > 1, body, 1, 1), 1),
                 L("Radio Bearer ID", RdIf(n > 2, body, 2, 1), 1),
                 L("Uarfcn", RdIf(n >= 6, body, 4, 2), 2),
                 L("Psc", RdIf(n >= 8, body, 6, 2), 2),
                 L("Message Length", RdIf(n >= 10, body, 8, 2), 2),
                 T("Interpreted PDU:") >>
              \o When(n >= 20,
                      << L("sfn-Prime", RdIf(n >= 20, body, 18, 2), 2) >>
                      \o (IF payload_type = "Complete SIB List"
                          THEN << T("payload completeSIB-List") >>
                               \o When(n >= 24,
                                       << L("segCount", num_sibs, 1) >>
                                       \o sib_entries(body, 0, Min(LE(num_sibs), 8), 24))
                          ELSE IF payload_type = "First Segment"
                          THEN << T("payload firstSegment") >>
                          ELSE IF payload_type = "Subsequent Segment"
                          THEN << T("payload subsequentSegment") >>
                          ELSE << T("payload lastSegmentShort") >>)))

\* DiagWcdmaSignalingParser.parse_wcdma_cell_id (0x4135)
parse_wcdma_cell_id(body) ==
    LET n == Len(body)
    IN  TryStdout(
          << T("0x4135  WCDMA Cell ID"), VersionLine(body) >>
          \o When(n >= 12, << L("Cell ID", RdIf(n >= 8, body, 4, 4), 4),
                              L("Primary Scrambling Code", RdIf(n >= 10, body, 8, 2), 2) >>))

\* the cell loop of parse_wcdma_search_cell_reselection
RECURSIVE search_cell_entries(_, _, _, _)
search_cell_entries(body, i, count, pos) ==
    LET n == Len(body)
    IN  IF i >= count \/ pos + 12 > n THEN <<>>
        ELSE << L("Cell PSC", RdIf(pos + 2 <= n, body, pos, 2), 2),
                Scaled("Cell RSCP", RdIf(pos + 4 <= n, body, pos + 2, 2), 16, 1),
                L("Cell Ec/Io", RdIf(pos + 6 <= n, body, pos + 4, 2), 2) >>
             \o search_cell_entries(body, i + 1, count, pos + 12)

\* DiagWcdmaSignalingParser.parse_wcdma_search_cell_reselection (0x4342)
parse_wcdma_search_cell_reselection(body) ==
    LET n == Len(body)
        num_cells == RdIf(n > 2, body, 2, 1)
    IN  TryStdout(
          << T("0x4342  WCDMA Search Cell Reselection"), VersionLine(body) >>
          \o When(n >= 16,
                  << L("Search Type", RdIf(n > 1, body, 1, 1), 1),
                     L("Number of Cells", num_cells, 1) >>
                  \o search_cell_entries(body, 0, Min(LE(num_cells), 8), 8)))

\* DiagWcdmaSignalingParser.parse_wcdma_agc (0x423F)
parse_wcdma_agc(body) ==
    LET n == Len(body)
    IN  TryStdout(
          << T("0x423F  WCDMA AGC"), VersionLine(body) >>
          \o When(n >= 16, << L("AGC Value", RdIf(n >= 6, body, 4, 2), 2),
                              L("LNA State", RdIf(n > 6, body, 6, 1), 1) >>))

\* the finger loop of parse_wcdma_finger_info
RECURSIVE finger_entries(_, _, _, _)
finger_entries(body, i, count, pos) ==
    LET n == Len(body)
    IN  IF i >= count \/ pos + 8 > n THEN <<>>
        ELSE << L("Finger ID", RdIf(pos < n, body, pos, 1), 1),
                L("PN Position", RdIf(pos + 4 <= n, body, pos + 2, 2), 2),
                L("Energy", RdIf(pos + 6 <= n, body, pos + 4, 2), 2) >>
             \o finger_entries(body, i + 1, count, pos + 8)

\* DiagWcdmaSignalingParser.parse_wcdma_finger_info (0x421C)
parse_wcdma_finger_info(body) ==
    LET n == Len(body)
        num_fingers == RdIf(n > 1, body, 1, 1)
    IN  TryStdout(
          << T("0x421C  WCDMA Finger Info"), VersionLine(body) >>
          \o When(n >= 12,
                  << L("Number of Fingers", num_fingers, 1) >>
                  \o finger_entries(body, 0, Min(LE(num_fingers), 6), 4)))


\* ------------------------------------------------------------ hex rendering
HexChars == << "0", "1", "2", "3", "4", "5", "6", "7",
               "8", "9", "A", "B", "C", "D", "E", "F" >>

\* binascii.hexlify(bytes).decode().upper(): two hex characters per byte
RECURSIVE Hexlify(_)
Hexlify(bytes) ==
    IF bytes = <<>> THEN <<>>
    ELSE << HexChars[(Head(bytes) \div 16) + 1], HexChars[(Head(bytes) % 16) + 1] >>
         \o Hexlify(Tail(bytes))

\* the hex digits of n >= 0, most significant first
RECURSIVE HexDigits(_)
HexDigits(n) ==
    IF n < 16 THEN << HexChars[n + 1] >> ELSE HexDigits(n \div 16) \o << HexChars[(n % 16) + 1] >>

RECURSIVE PadChars(_, _)
PadChars(cs, width) == IF Len(cs) >= width THEN cs ELSE PadChars(<<"0">> \o cs, width)
\* f"{n:0<width>X}"
FmtHex(n, width) == PadChars(HexDigits(n), width)

\* ==================================================== diagqcatmsgparser.py
\* a decoder without try/except: a read past the end propagates
RaiseOr(fields, record) == IF Faulty(fields) THEN Raise("IndexError") ELSE record

\* DiagQCATMsgParser._get_apdu_command: the instruction bytes of the table
ApduInstructions == {242, 164, 176, 178, 214, 220, 136, 32, 132, 192}
\* DiagQCATMsgParser._get_apdu_command
\* the `commands` table of DiagQCATMsgParser._get_apdu_command
commands ==
    242 :> "STATUS" @@ 164 :> "SELECT" @@ 176 :> "READ BINARY"
    @@ 178 :> "READ RECORD" @@ 214 :> "UPDATE BINARY" @@ 220 :> "UPDATE RECORD"
    @@ 136 :> "AUTHENTICATE" @@ 32 :> "VERIFY" @@ 132 :> "GET CHALLENGE"
    @@ 192 :> "GET RESPONSE"

\* DiagQCATMsgParser._get_apdu_command:
\* commands.get(ins, f'UNKNOWN (0x{ins:02X})')
get_apdu_command(ins) ==
    IF ins \in ApduInstructions
    THEN [known |-> TRUE, ins |-> ins, name |-> commands[ins], hex |-> <<>>]
    ELSE [known |-> FALSE, ins |-> ins, name |-> "UNKNOWN", hex |-> FmtHex(ins, 2)]

\* DiagQCATMsgParser._parse_status_words: the text of the branch taken and
\* the bytes it prints as 0x%02X
parse_status_words(sw1, sw2) ==
    LET Plain(text) == [text |-> text, hex |-> <<>>]
        WithSw2(text) == [text |-> text, hex |-> << FmtHex(sw2, 2) >>]
    IN  IF sw1 = 144 /\ sw2 = 0 THEN Plain("Normal ending of the command")
        ELSE IF sw1 = 145 THEN WithSw2("Normal ending with extra info")
        ELSE IF sw1 = 146 THEN WithSw2("Command successful with warning")
        ELSE IF sw1 = 147 THEN WithSw2("Command successful but after retry")
        ELSE IF sw1 = 148 THEN WithSw2("Error, no precise diagnosis")
        ELSE IF sw1 = 152 THEN WithSw2("Security error")
        ELSE IF sw1 = 106 THEN WithSw2("Wrong parameter(s) P1-P2")
        ELSE IF sw1 = 107 THEN Plain("Wrong parameter(s) P1-P2")
        ELSE IF sw1 = 109 THEN Plain("Instruction code not supported")
        ELSE IF sw1 = 110 THEN Plain("Class not supported")
        ELSE IF sw1 = 111 THEN Plain("Technical problem, no precise diagnosis")
        ELSE [text |-> "Unknown status", hex |-> << FmtHex(sw1, 2), FmtHex(sw2, 2) >>]

\* DiagQCATMsgParser.parse_ruim_debug (0x1098)
parse_ruim_debug(body) ==
    LET n == Len(body)
        direction == Rd(body, 0, 1)
        data == Slice(body, 1, n)
        dn == Len(data)
        tx == LE(direction) = 0 /\ dn >= 5
        rx == LE(direction) = 1 /\ dn >= 2
        fields ==
            << L("direction", direction, 1), L("data", data, 0) >>
            \o When(tx, << L("cla", Rd(data, 0, 1), 1), L("ins", Rd(data, 1, 1), 1),
                           L("p1", Rd(data, 2, 1), 1), L("p2", Rd(data, 3, 1), 1),
                           L("p3", Rd(data, 4, 1), 1),
                           LT("command", Rd(data, 1, 1), 1,
                              IF Len(data) > 1 THEN get_apdu_command(data[2]) ELSE <<>>),
                           T("slot"), T("channel"), T("sm_used") >>)
            \o When(rx, << L("sw1", Rd(data, dn - 2, 1), 1), L("sw2", Rd(data, dn - 1, 1), 1),
                           LT("status", Slice(data, dn - 2, dn), 0,
                              parse_status_words(data[dn - 1], data[dn])),
                           T("slot") >>
                        \o When(dn > 2, << L("response_data", Slice(data, 0, dn - 2), 0) >>))
    IN  IF n < 2 THEN None
        ELSE RaiseOr(fields,
               QcatMsg([type |-> "ruim_debug",
                        direction |-> IF LE(direction) = 0 THEN "TX" ELSE "RX",
                        fields |-> fields, tlvs |-> <<>>]))

\* the TLV loop reading the 16-bit length big-endian
RECURSIVE qmi_tlvs_big_endian(_, _)
qmi_tlvs_big_endian(tlv_data, pos) ==
    LET tlv_type == tlv_data[pos + 1]
        tlv_len == tlv_data[pos + 2] * 256 + tlv_data[pos + 3]
        tlv_value == Slice(tlv_data, pos + 3, pos + 3 + tlv_len)
    IN  IF pos + 3 <= Len(tlv_data)
        THEN IF pos + 3 + tlv_len <= Len(tlv_data)
             THEN << [type |-> tlv_type, length |-> tlv_len, value |-> Hexlify(tlv_value)] >>
                  \o qmi_tlvs_big_endian(tlv_data, pos + 3 + tlv_len)
             ELSE <<>>
        ELSE <<>>

\* the TLV loop appending the truncated TLV (with the bytes that are left)
\* before it stops
RECURSIVE qmi_tlvs_keep_truncated(_, _)
qmi_tlvs_keep_truncated(tlv_data, pos) ==
    LET tlv_type == tlv_data[pos + 1]
        tlv_len == LE(Slice(tlv_data, pos + 1, pos + 3))
        tlv_value == Slice(tlv_data, pos + 3, pos + 3 + tlv_len)
    IN  IF pos + 3 <= Len(tlv_data)
        THEN << [type |-> tlv_type, length |-> tlv_len, value |-> Hexlify(tlv_value)] >>
             \o (IF pos + 3 + tlv_len <= Len(tlv_data)
                 THEN qmi_tlvs_keep_truncated(tlv_data, pos + 3 + tlv_len)
                 ELSE <<>>)
        ELSE <<>>

\* the TLV loop of parse_qmi_message: `while pos + 3 <= len(tlv_data)`
RECURSIVE qmi_tlvs(_, _)
qmi_tlvs(tlv_data, pos) ==
    LET tlv_type == tlv_data[pos + 1]
        tlv_len == LE(Slice(tlv_data, pos + 1, pos + 3))
        tlv_value == Slice(tlv_data, pos + 3, pos + 3 + tlv_len)
    IN  IF pos + 3 <= Len(tlv_data)
        THEN IF pos + 3 + tlv_len <= Len(tlv_data)
             THEN << [type |-> tlv_type, length |-> tlv_len, value |-> Hexlify(tlv_value)] >>
                  \o qmi_tlvs(tlv_data, pos + 3 + tlv_len)
             ELSE <<>>
        ELSE <<>>

\* DiagQCATMsgParser.parse_qmi_message (0x1544)
parse_qmi_message(body) ==
    LET n == Len(body)
        fields == << L("version", Rd(body, 0, 1), 1),
                     L("msg_type", Rd(body, 1, 1), 1),
                     L("counter", Rd(body, 2, 2), 2),
                     L("service_id", Rd(body, 4, 1), 1),
                     L("major_rev", Rd(body, 5, 1), 1),
                     L("minor_rev", Rd(body, 6, 1), 1),
                     L("con_handle", RdIf(n >= 11, body, 7, 4), 4),
                     L("msg_id", RdIf(n >= 13, body, 11, 2), 2),
                     L("qmi_length", RdIf(n >= 15, body, 13, 2), 2) >>
        tlvs == IF n > 15 THEN qmi_tlvs(Slice(body, 15, n), 0) ELSE <<>>
    IN  IF n < 12 THEN None
        ELSE RaiseOr(fields,
               QcatMsg([type |-> "qmi_message", direction |-> "",
                        fields |-> fields, tlvs |-> tlvs]))

\* parse_cm_phone_event with its length check off by one (len < 3)
parse_cm_phone_event_min3(body) ==
    LET n == Len(body)
        fields == << L("version", Rd(body, 0, 1), 1),
                     L("event_type", Rd(body, 1, 2), 2) >>
                  \o When(n >= 10, << L("is_in_use", Rd(body, 3, 1), 1),
                                      L("operating_mode", Rd(body, 4, 1), 1) >>)
    IN  IF n < 3 THEN None
        ELSE RaiseOr(fields,
               QcatMsg([type |-> "cm_phone_event", direction |-> "",
                        fields |-> fields, tlvs |-> <<>>]))

\* DiagQCATMsgParser.parse_cm_phone_event (0x1273)
parse_cm_phone_event(body) ==
    LET n == Len(body)
        fields == << L("version", Rd(body, 0, 1), 1),
                     L("event_type", Rd(body, 1, 2), 2) >>
                  \o When(n >= 10, << L("is_in_use", Rd(body, 3, 1), 1),
                                      L("operating_mode", Rd(body, 4, 1), 1) >>)
    IN  IF n < 4 THEN None
        ELSE RaiseOr(fields,
               QcatMsg([type |-> "cm_phone_event", direction |-> "",
                        fields |-> fields, tlvs |-> <<>>]))

\* DiagQCATMsgParser.parse_pm_policy_stats (0x199B)
parse_pm_policy_stats(body) ==
    LET n == Len(body)
        fields == << L("version", Rd(body, 0, 1), 1),
                     L("policy_num", RdIf(n >= 3, body, 1, 2), 2),
                     L("policy_type", RdIf(n >= 4, body, 3, 1), 1),
                     L("policy_version", RdIf(n >= 5, body, 4, 1), 1),
                     L("last_exec_time", RdIf(n >= 9, body, 5, 4), 4),
                     L("elapsed_time", RdIf(n >= 13, body, 9, 4), 4),
                     L("num_rules", RdIf(n >= 15, body, 13, 2), 2),
                     L("suspend_count", RdIf(n >= 17, body, 15, 2), 2),
                     L("is_policy_init", RdIf(n >= 18, body, 17, 1), 1) >>
    IN  IF n < 20 THEN None
        ELSE RaiseOr(fields,
               QcatMsg([type |-> "pm_policy_stats", direction |-> "",
                        fields |-> fields, tlvs |-> <<>>]))

\* ================================================= diagunknownlogparser.py
\* DiagUnknownLogParser.update_parameters: the display-name table it assigns
\* to self.message_type_names (keys in decimal, in source order)
message_type_names ==
    16779 :> "WCDMA Flexible DL RLC AM PDU"
    @@ 16926 :> "WCDMA MAC-ehs Reassembly"
    @@ 6217 :> "RF Device Status"
    @@ 6391 :> "RF Calibration Data"
    @@ 6637 :> "Atuner Detune Info"
    @@ 16761 :> "RF LTE TX Report"
    @@ 16852 :> "RF LTE RX Report"
    @@ 0 :> "System Status"
    @@ 16774 :> "RF GSM TX Report"
    @@ 16692 :> "RF WCDMA TX Report"
    @@ 16930 :> "WCDMA Advanced Report"
    @@ 5444 :> "QMI_MCS_QCSI_PKT"
    @@ 16760 :> "RF Power Report"
    @@ 16710 :> "RF Antenna Report"
    @@ 16745 :> "RF Band Report"
    @@ 16744 :> "RF Channel Report"
    @@ 17220 :> "WCDMA Multi Carrier EUL Combined L1 MAC"
    @@ 16759 :> "RF Status Report"
    @@ 17186 :> "WCDMA Diversity Report"
    @@ 17245 :> "WCDMA Calibration Report"
    @@ 4996 :> "CGPS PDSM External Status NMEA Report"
    @@ 5238 :> "GNSS Position Report"
    @@ 5073 :> "XO Frequency Estimation"
    @@ 4723 :> "CM Phone Event"
    @@ 6552 :> "PM PH History Info"
    @@ 6209 :> "RF ASDIV"
    @@ 29010 :> "UMTS NAS_FPLMN List"
    @@ 28978 :> "UMTS NAS_REG State"
    @@ 28977 :> "UMTS NAS_MM State"
    @@ 28976 :> "UMTS NAS_GMM State"
    @@ 6340 :> "RF Advanced Status"
    @@ 6339 :> "RF Configuration Report"
    @@ 7282 :> "System Configuration"
    @@ 7280 :> "System Status Extended"
    @@ 7278 :> "System Performance"
    @@ 4981 :> "Power Management Report"
    @@ 16854 :> "RF Advanced RX Report"
    @@ 16845 :> "RF Calibration Status"
    @@ 16777 :> "RF Power Management"
    @@ 16785 :> "RF System Report"
    @@ 16776 :> "RF Configuration Status"

\* the lookup rendering the identifier with f"{log_id:02X}" instead of 04X
get_message_name_two_digits(has_names, log_id) ==
    IF ~has_names THEN Raise("AttributeError")
    ELSE IF log_id \in DOMAIN message_type_names
    THEN [kind |-> "name", known |-> TRUE, name |-> message_type_names[log_id], hex |-> <<>>]
    ELSE [kind |-> "name", known |-> FALSE, name |-> "Unknown Log 0x", hex |-> FmtHex(log_id, 2)]

\* DiagUnknownLogParser.get_message_name; has_names is whether the attribute
\* self.message_type_names exists (AttributeError otherwise)
get_message_name(has_names, log_id) ==
    IF ~has_names THEN Raise("AttributeError")
    ELSE IF log_id \in DOMAIN message_type_names
    THEN [kind |-> "name", known |-> TRUE, name |-> message_type_names[log_id], hex |-> <<>>]
    ELSE [kind |-> "name", known |-> FALSE, name |-> "Unknown Log 0x", hex |-> FmtHex(log_id, 4)]

\* DiagUnknownLogParser._parse_qmi_packet_details
parse_qmi_packet_details(body) ==
    LET n == Len(body)
    IN  UntilFault(
          When(n >= 8,
               << L("packetVersion", RdIf(n > 1, body, 1, 1), 1),
                  L("MsgType", RdIf(n > 2, body, 2, 1), 1),
                  L("Counter", RdIf(n > 3, body, 3, 1), 1) >>
               \o When(n >= 12, << L("ServiceId", RdIf(n >= 6, body, 4, 2), 2) >>)))

\* DiagUnknownLogParser._parse_cm_phone_event_details
parse_cm_phone_event_details(body) ==
    LET n == Len(body)
    IN  UntilFault(
          When(n >= 8,
               << L("Version", RdIf(n > 0, body, 0, 1), 1),
                  L("Phone Event", RdIf(n > 1, body, 1, 1), 1) >>
               \o When(n >= 12, << L("Is In Use", RdIf(n > 2, body, 2, 1), 1),
                                   L("Operating Mode", RdIf(n > 3, body, 3, 1), 1) >>)))

\* DiagUnknownLogParser._parse_pm_history_details
parse_pm_history_details(body) ==
    LET n == Len(body)
    IN  UntilFault(
          When(n >= 4,
               << L("Version", RdIf(n > 0, body, 0, 1), 1) >>
               \o When(n >= 8, << L("History Type", RdIf(n > 1, body, 1, 1), 1) >>)))

\* DiagUnknownLogParser._parse_system_rf_details
parse_system_rf_details(body) ==
    LET n == Len(body)
    IN  UntilFault(
          When(n >= 4,
               << L("Version", Rd(body, 0, 1), 1),
                  L("Status", RdIf(n > 1, body, 1, 1), 1),
                  L("Configuration", RdIf(n >= 4, body, 2, 2), 2) >>
               \o When(n >= 8, << L("Timestamp", Rd(body, 4, 4), 4) >>)))

\* DiagUnknownLogParser._parse_advanced_rf_details
parse_advanced_rf_details(body) ==
    LET n == Len(body)
    IN  UntilFault(
          When(n >= 8,
               << L("Version", Rd(body, 0, 1), 1),
                  L("RF Band", RdIf(n > 1, body, 1, 1), 1),
                  Scaled("Power Level", RdIf(n >= 4, body, 2, 2), 16, 2),
                  L("Frequency", RdIf(n >= 8, body, 4, 4), 4) >>))

\* DiagUnknownLogParser._parse_power_management_details
parse_power_management_details(body) ==
    LET n == Len(body)
    IN  UntilFault(
          When(n >= 8,
               << L("Version", Rd(body, 0, 1), 1),
                  L("Power State", RdIf(n > 1, body, 1, 1), 1),
                  L("Voltage", RdIf(n >= 4, body, 2, 2), 2),
                  L("Current", RdIf(n >= 6, body, 4, 2), 2) >>))

\* the rows of _format_hex_data: `for i in range(0, len(hex_data), 32)`, each
\* row labelled Data[{i//2:04X}] and holding up to 32 hex characters
RECURSIVE hex_rows(_, _)
hex_rows(hex_data, i) ==
    IF i >= Len(hex_data) THEN <<>>
    ELSE << LT("Data", <<>>, 0,
               [offset |-> FmtHex(i \div 2, 4), line |-> Slice(hex_data, i, i + 32)]) >>
         \o hex_rows(hex_data, i + 32)

\* _format_hex_data adding the note from 64 bytes on (>= instead of >)
format_hex_data_note_at_64(body) ==
    LET n == Len(body)
        data_to_show == Slice(body, 0, Min(64, n))
    IN  When(n > 0,
             hex_rows(Hexlify(data_to_show), 0)
             \o When(n >= 64, << LT("more bytes", <<>>, 0, Digits(n - 64)) >>))

\* DiagUnknownLogParser._format_hex_data
format_hex_data(body) ==
    LET n == Len(body)
        data_to_show == Slice(body, 0, Min(64, n))
    IN  When(n > 0,
             hex_rows(Hexlify(data_to_show), 0)
             \o When(n > 64, << LT("more bytes", <<>>, 0, Digits(n - 64)) >>))

\* DiagUnknownLogParser.parse_unknown_log_packet
parse_unknown_log_packet(has_names, log_id, body) ==
    LET n == Len(body)
        message_name == get_message_name(has_names, log_id)
        details ==
            IF log_id = 5444 THEN parse_qmi_packet_details(body)
            ELSE IF log_id = 4723 THEN parse_cm_phone_event_details(body)
            ELSE IF log_id = 6552 THEN parse_pm_history_details(body)
            ELSE IF log_id \in {6340, 6339, 7282, 7280, 7278} THEN parse_system_rf_details(body)
            ELSE IF log_id \in {16854, 16845, 16777, 16785, 16776}
                 THEN parse_advanced_rf_details(body)
            ELSE IF log_id = 4981 THEN parse_power_management_details(body)
            ELSE When(n > 0, format_hex_data(body))
    IN  IF message_name.kind = "Raise" THEN None
        ELSE TryStdout(
              << LT("title", <<>>, 0, [id |-> FmtHex(log_id, 4), name |-> message_name]) >>
              \o When(n > 0, << L("Version", Rd(body, 0, 1), 1) >>)
              \o << LT("Packet Length", <<>>, 0, Digits(n)) >>
              \o details)

\* ============================================== diagcommoneventparser.py
\* DiagCommonEventParser.process: event id -> (decoder, canonical name)
common_event_process ==
    1682 :> [decoder |-> "parse_event_ipv6_sm_event", name |-> "IPV6_SM_EVENT"]
    @@ 1684 :> [decoder |-> "parse_event_ipv6_prefix_update", name |-> "IPV6_PREFIX_UPDATE"]
    @@ 2865 :> [decoder |-> "parse_event_diag_qshrink_id", name |-> "DIAG_QSHRINK_ID"]
    @@ 2866 :> [decoder |-> "parse_event_diag_process_name_id", name |-> "DIAG_PROCESS_NAME"]
    @@ 1605 :> [decoder |-> "parse_event_common", name |-> "LTE_RRC_TIMER_STATUS"]
    @@ 1606 :> [decoder |-> "parse_event_common", name |-> "LTE_RRC_STATE_CHANGE"]
    @@ 1609 :> [decoder |-> "parse_event_common", name |-> "LTE_RRC_DL_MSG"]
    @@ 1610 :> [decoder |-> "parse_event_common", name |-> "LTE_RRC_UL_MSG"]
    @@ 1614 :> [decoder |-> "parse_event_common", name |-> "LTE_RRC_PAGING_DRX_CYCLE"]
    @@ 2100 :> [decoder |-> "parse_event_common", name |-> "WCDMA_RRC_STATE_CHANGE"]
    @@ 2101 :> [decoder |-> "parse_event_common", name |-> "WCDMA_RRC_DL_MSG"]
    @@ 2102 :> [decoder |-> "parse_event_common", name |-> "WCDMA_RRC_UL_MSG"]
    @@ 2103 :> [decoder |-> "parse_event_common", name |-> "WCDMA_RRC_PAGING_DRX_CYCLE"]
    @@ 1200 :> [decoder |-> "parse_event_common", name |-> "GSM_RACH_ATTEMPT"]
    @@ 1201 :> [decoder |-> "parse_event_common", name |-> "GSM_RACH_SUCCESS"]
    @@ 1202 :> [decoder |-> "parse_event_common", name |-> "GSM_RACH_FAILURE"]
    @@ 1210 :> [decoder |-> "parse_event_common", name |-> "GSM_CELL_SELECTION"]
    @@ 1211 :> [decoder |-> "parse_event_common", name |-> "GSM_CELL_RESELECTION"]
    @@ 3000 :> [decoder |-> "parse_event_common", name |-> "NR_RRC_STATE_CHANGE"]
    @@ 3001 :> [decoder |-> "parse_event_common", name |-> "NR_RRC_DL_MSG"]
    @@ 3002 :> [decoder |-> "parse_event_common", name |-> "NR_RRC_UL_MSG"]
    @@ 3010 :> [decoder |-> "parse_event_common", name |-> "NR_RRC_PAGING_DRX_CYCLE"]

\* the name of an event record: a registered canonical name, a name the
\* decoder hard-codes, or the synthesized UNKNOWN_EVENT_<id>
EventName(name) == [unknown |-> FALSE, name |-> name, id |-> <<>>]
UnknownEventName(event_id) == [unknown |-> TRUE, name |-> "UNKNOWN_EVENT_", id |-> Digits(event_id)]

\* ' '.join(f'{b:02X}' for b in arg_bin): one two-character group per byte
RECURSIVE HexGroups(_)
HexGroups(bytes) ==
    IF bytes = <<>> THEN <<>> ELSE << Hexlify(<<Head(bytes)>>) >> \o HexGroups(Tail(bytes))

\* hex text: the letter case of the format, the separator between the
\* groups, a literal prefix and the two-digit groups themselves
HexText(case, sep, prefix, bytes) ==
    [case |-> case, sep |-> sep, prefix |-> prefix, groups |-> HexGroups(bytes)]

EventRecord(type, event_id, payload, payload_str) ==
    [kind |-> "event", type |-> type, id |-> event_id, thread |-> "00",
     payload |-> payload, payload_str |-> payload_str]

\* DiagCommonEventParser.parse_event_common
parse_event_common(event_id, arg_bin) ==
    LET event_name == IF event_id \in DOMAIN common_event_process
                      THEN EventName(common_event_process[event_id].name)
                      ELSE UnknownEventName(event_id)
        payload_ascii == IF \A i \in DOMAIN arg_bin : 32 <= arg_bin[i] /\ arg_bin[i] < 127
                         THEN arg_bin ELSE <<>>
    IN  EventRecord(event_name, event_id, HexText("upper", " ", <<>>, arg_bin), payload_ascii)

\* the header build_header stores in self.header: the GSMTAP header (fixed),
\* the osmocore logging header (timestamp, pid = event id) and "<name>: "
EventHeader(ts, event_id, name) ==
    [kind |-> "header", ts |-> ts, pid |-> event_id, name |-> name]

\* DiagCommonEventParser.build_header: self.process[args[1]][1] raises
\* KeyError for an event id that is not a key of the table
build_header(process, ts, event_id) ==
    IF event_id \in DOMAIN process
    THEN EventHeader(ts, event_id, EventName(process[event_id].name))
    ELSE Raise("KeyError")

\* log_content of a header-building decoder, and `self.header + log_content`
LogContent(text) == [kind |-> "log_content", text |-> text]
Encapsulated(header, content) ==
    [kind |-> "encapsulated", header |-> header, content |-> content.text]

\* a decoder decorated with @build_header: the header is built and stored
\* first, then the decorated function runs; a raise of either propagates
Wrapped(header, content) ==
    IF header.kind = "Raise" THEN header
    ELSE IF content.kind = "Raise" THEN content
    ELSE Encapsulated(header, content)

\* the log_content of parse_event_ipv6_sm_event and
\* parse_event_ipv6_prefix_update: the payload as lower-case hex groups
parse_event_ipv6(arg_bin) == LogContent(HexText("lower", " ", <<>>, arg_bin))

\* bytes.decode('utf-8', errors='replace') on bytes that form no multi-byte
\* sequence: an ASCII byte is its own code point, any other byte U+FFFD
RECURSIVE Utf8Replace(_)
Utf8Replace(bytes) ==
    IF bytes = <<>> THEN <<>>
    ELSE << IF Head(bytes) < 128 THEN Head(bytes) ELSE 65533 >> \o Utf8Replace(Tail(bytes))

\* the length of a GUID (`if len(diag_uuid) == 16`)
GuidLen == 16

\* decimal digits, least significant first, of digits * m + carry
RECURSIVE DecMulAdd(_, _, _)
DecMulAdd(digits, m, carry) ==
    IF digits = <<>>
    THEN IF carry = 0 THEN <<>> ELSE << carry % 10 >> \o DecMulAdd(<<>>, m, carry \div 10)
    ELSE LET t == Head(digits) * m + carry
         IN  << t % 10 >> \o DecMulAdd(Tail(digits), m, t \div 10)

\* int.from_bytes(bytes, 'big') accumulated byte by byte, as decimal digits
\* (least significant first; the value may exceed 32 bits)
RECURSIVE IntFromBytesBig(_, _)
IntFromBytesBig(bytes, acc) ==
    IF bytes = <<>> THEN acc
    ELSE IntFromBytesBig(Tail(bytes), DecMulAdd(acc, 256, Head(bytes)))

\* str(int.from_bytes(bytes, 'big')): the decimal digits, most significant first
StrIntFromBytesBig(bytes) ==
    LET rev == IntFromBytesBig(bytes, <<>>)
    IN  IF rev = <<>> THEN << 0 >> ELSE [i \in 1..Len(rev) |-> rev[Len(rev) + 1 - i]]

\* parse_event_diag_qshrink_id taking each GUID block little-endian
parse_event_diag_qshrink_id_little_endian(event_id, arg_bin) ==
    LET diag_id == Rd(arg_bin, 0, 1)
        diag_uuid == Slice(arg_bin, 1, Len(arg_bin))
        Little(bytes) == [i \in 1..Len(bytes) |-> bytes[Len(bytes) + 1 - i]]
        guid_blocks == IF Len(diag_uuid) = GuidLen
                       THEN << StrIntFromBytesBig(Little(Slice(diag_uuid, 0, 4))),
                               StrIntFromBytesBig(Little(Slice(diag_uuid, 4, 6))),
                               StrIntFromBytesBig(Little(Slice(diag_uuid, 6, 8))),
                               StrIntFromBytesBig(Little(Slice(diag_uuid, 8, 10))),
                               StrIntFromBytesBig(Little(Slice(diag_uuid, 10, 16))) >>
                       ELSE <<>>
    IN  IF Len(diag_id) < 1 THEN Raise("IndexError")
        ELSE EventRecord(EventName("EVENT_DIAG_QSHRINK_ID"), event_id,
                         HexText("upper", " ", <<"0x">> \o Hexlify(diag_id), diag_uuid),
                         [diag_id |-> Digits(diag_id[1]), guid |-> guid_blocks])

\* DiagCommonEventParser.parse_event_diag_qshrink_id; payload_str is
\* f"Diag Id = {diag_id}, GUID = {guid_str}" with guid_str the decimal blocks
\* joined by "-" (no block when the remainder is not 16 bytes long)
parse_event_diag_qshrink_id(event_id, arg_bin) ==
    LET diag_id == Rd(arg_bin, 0, 1)
        diag_uuid == Slice(arg_bin, 1, Len(arg_bin))
        guid_blocks == IF Len(diag_uuid) = GuidLen
                       THEN << StrIntFromBytesBig(Slice(diag_uuid, 0, 4)),
                               StrIntFromBytesBig(Slice(diag_uuid, 4, 6)),
                               StrIntFromBytesBig(Slice(diag_uuid, 6, 8)),
                               StrIntFromBytesBig(Slice(diag_uuid, 8, 10)),
                               StrIntFromBytesBig(Slice(diag_uuid, 10, 16)) >>
                       ELSE <<>>
    IN  IF Len(diag_id) < 1 THEN Raise("IndexError")
        ELSE EventRecord(EventName("EVENT_DIAG_QSHRINK_ID"), event_id,
                         HexText("upper", " ", <<"0x">> \o Hexlify(diag_id), diag_uuid),
                         [diag_id |-> Digits(diag_id[1]), guid |-> guid_blocks])

\* parse_event_diag_process_name_id dropping a terminating NUL from the text
parse_event_diag_process_name_id_stripped(event_id, arg_bin) ==
    LET diag_id == Rd(arg_bin, 0, 1)
        name == Slice(arg_bin, 1, Len(arg_bin))
        text == IF name # <<>> /\ name[Len(name)] = 0
                THEN SubSeq(name, 1, Len(name) - 1) ELSE name
    IN  IF Len(diag_id) < 1 THEN Raise("IndexError")
        ELSE EventRecord(EventName("EVENT_DIAG_PROCESS_NAME_ID"), event_id,
                         HexText("upper", " ", <<"0x">> \o Hexlify(diag_id), name),
                         Utf8Replace(text))

\* DiagCommonEventParser.parse_event_diag_process_name_id
parse_event_diag_process_name_id(event_id, arg_bin) ==
    LET diag_id == Rd(arg_bin, 0, 1)
        name == Slice(arg_bin, 1, Len(arg_bin))
    IN  IF Len(diag_id) < 1 THEN Raise("IndexError")
        ELSE EventRecord(EventName("EVENT_DIAG_PROCESS_NAME_ID"), event_id,
                         HexText("upper", " ", <<"0x">> \o Hexlify(diag_id), name),
                         Utf8Replace(name))

\* ================================================= diaglteeventparser.py
\* DiagLteEventParser.process: event id -> (decoder, canonical name)
lte_event_process ==
    1605 :> [decoder |-> "parse_event_lte_rrc_timer_status", name |-> "LTE_RRC_TIMER_STATUS"]
    @@ 1606 :> [decoder |-> "parse_event_lte_rrc_state_change", name |-> "LTE_RRC_STATE_CHANGE"]
    @@ 1609 :> [decoder |-> "parse_event_lte_rrc_dl_msg", name |-> "LTE_RRC_DL_MSG"]
    @@ 1610 :> [decoder |-> "parse_event_lte_rrc_ul_msg", name |-> "LTE_RRC_UL_MSG"]
    @@ 1614 :> [decoder |-> "parse_event_lte_rrc_paging_drx_cycle", name |-> "LTE_RRC_PAGING_DRX_CYCLE"]
    @@ 1627 :> [decoder |-> "parse_event_lte_nas_msg", name |-> "LTE_CM_INCOMING_MSG"]
    @@ 1628 :> [decoder |-> "parse_event_lte_nas_msg", name |-> "LTE_CM_OUTGOING_MSG"]
    @@ 1629 :> [decoder |-> "parse_event_lte_nas_msg", name |-> "LTE_EMM_INCOMING_MSG"]
    @@ 1630 :> [decoder |-> "parse_event_lte_nas_msg", name |-> "LTE_EMM_OUTGOING_MSG"]
    @@ 1633 :> [decoder |-> "parse_event_lte_nas_msg", name |-> "LTE_REG_INCOMING_MSG"]
    @@ 1634 :> [decoder |-> "parse_event_lte_nas_msg", name |-> "LTE_REG_OUTGOING_MSG"]
    @@ 1635 :> [decoder |-> "parse_event_lte_nas_msg", name |-> "LTE_ESM_INCOMING_MSG"]
    @@ 1636 :> [decoder |-> "parse_event_lte_nas_msg", name |-> "LTE_ESM_OUTGOING_MSG"]
    @@ 1966 :> [decoder |-> "parse_event_lte_nas_ota_msg", name |-> "LTE_EMM_OTA_INCOMING_MSG"]
    @@ 1967 :> [decoder |-> "parse_event_lte_nas_ota_msg", name |-> "LTE_EMM_OTA_OUTGOING_MSG"]
    @@ 1968 :> [decoder |-> "parse_event_lte_nas_ota_msg", name |-> "LTE_ESM_OTA_INCOMING_MSG"]
    @@ 1969 :> [decoder |-> "parse_event_lte_nas_ota_msg", name |-> "LTE_ESM_OTA_OUTGOING_MSG"]
    @@ 1631 :> [decoder |-> "parse_event_lte_emm_esm_timer", name |-> "LTE_EMM_TIMER_START"]
    @@ 1632 :> [decoder |-> "parse_event_lte_emm_esm_timer", name |-> "LTE_EMM_TIMER_EXPIRY"]
    @@ 1637 :> [decoder |-> "parse_event_lte_emm_esm_timer", name |-> "LTE_ESM_TIMER_START"]
    @@ 1638 :> [decoder |-> "parse_event_lte_emm_esm_timer", name |-> "LTE_ESM_TIMER_EXPIRY"]
    @@ 1938 :> [decoder |-> "parse_event_lte_ml1_phr_report", name |-> "LTE_ML1_PHR_REPORT"]
    @@ 1994 :> [decoder |-> "parse_event_lte_rrc_state_change_trigger", name |-> "LTE_RRC_STATE_CHANGE_TRIGGER"]
    @@ 2100 :> [decoder |-> "parse_event_wcdma_rrc_state_change", name |-> "WCDMA_RRC_STATE_CHANGE"]
    @@ 2101 :> [decoder |-> "parse_event_wcdma_rrc_dl_msg", name |-> "WCDMA_RRC_DL_MSG"]
    @@ 2102 :> [decoder |-> "parse_event_wcdma_rrc_ul_msg", name |-> "WCDMA_RRC_UL_MSG"]
    @@ 2103 :> [decoder |-> "parse_event_wcdma_rrc_paging_drx_cycle", name |-> "WCDMA_RRC_PAGING_DRX_CYCLE"]
    @@ 2127 :> [decoder |-> "parse_event_wcdma_nas_msg", name |-> "WCDMA_CM_INCOMING_MSG"]
    @@ 2128 :> [decoder |-> "parse_event_wcdma_nas_msg", name |-> "WCDMA_CM_OUTGOING_MSG"]
    @@ 2129 :> [decoder |-> "parse_event_wcdma_nas_msg", name |-> "WCDMA_EMM_INCOMING_MSG"]
    @@ 2130 :> [decoder |-> "parse_event_wcdma_nas_msg", name |-> "WCDMA_EMM_OUTGOING_MSG"]
    @@ 2133 :> [decoder |-> "parse_event_wcdma_nas_msg", name |-> "WCDMA_REG_INCOMING_MSG"]
    @@ 2134 :> [decoder |-> "parse_event_wcdma_nas_msg", name |-> "WCDMA_REG_OUTGOING_MSG"]
    @@ 2135 :> [decoder |-> "parse_event_wcdma_nas_msg", name |-> "WCDMA_ESM_INCOMING_MSG"]
    @@ 2136 :> [decoder |-> "parse_event_wcdma_nas_msg", name |-> "WCDMA_ESM_OUTGOING_MSG"]
    @@ 1200 :> [decoder |-> "parse_event_gsm_rach_attempt", name |-> "GSM_RACH_ATTEMPT"]
    @@ 1201 :> [decoder |-> "parse_event_gsm_rach_success", name |-> "GSM_RACH_SUCCESS"]
    @@ 1202 :> [decoder |-> "parse_event_gsm_rach_failure", name |-> "GSM_RACH_FAILURE"]
    @@ 1210 :> [decoder |-> "parse_event_gsm_cell_selection", name |-> "GSM_CELL_SELECTION"]
    @@ 1211 :> [decoder |-> "parse_event_gsm_cell_reselection", name |-> "GSM_CELL_RESELECTION"]
    @@ 3000 :> [decoder |-> "parse_event_nr_rrc_state_change", name |-> "NR_RRC_STATE_CHANGE"]
    @@ 3001 :> [decoder |-> "parse_event_nr_rrc_dl_msg", name |-> "NR_RRC_DL_MSG"]
    @@ 3002 :> [decoder |-> "parse_event_nr_rrc_ul_msg", name |-> "NR_RRC_UL_MSG"]
    @@ 3010 :> [decoder |-> "parse_event_nr_rrc_paging_drx_cycle", name |-> "NR_RRC_PAGING_DRX_CYCLE"]
    @@ 3027 :> [decoder |-> "parse_event_nr_nas_msg", name |-> "NR_CM_INCOMING_MSG"]
    @@ 3028 :> [decoder |-> "parse_event_nr_nas_msg", name |-> "NR_CM_OUTGOING_MSG"]
    @@ 3029 :> [decoder |-> "parse_event_nr_nas_msg", name |-> "NR_EMM_INCOMING_MSG"]
    @@ 3030 :> [decoder |-> "parse_event_nr_nas_msg", name |-> "NR_EMM_OUTGOING_MSG"]
    @@ 3033 :> [decoder |-> "parse_event_nr_nas_msg", name |-> "NR_REG_INCOMING_MSG"]
    @@ 3034 :> [decoder |-> "parse_event_nr_nas_msg", name |-> "NR_REG_OUTGOING_MSG"]
    @@ 3035 :> [decoder |-> "parse_event_nr_nas_msg", name |-> "NR_ESM_INCOMING_MSG"]
    @@ 3036 :> [decoder |-> "parse_event_nr_nas_msg", name |-> "NR_ESM_OUTGOING_MSG"]

\* the structured decoders of DiagLteEventParser (WCDMA, GSM, NR): the type
\* is the literal of the decoder, the payload binascii.hexlify(arg_bin)
lte_structured_type ==
    "parse_event_wcdma_rrc_state_change" :> "WCDMA_RRC_STATE_CHANGE"
    @@ "parse_event_wcdma_rrc_dl_msg" :> "WCDMA_RRC_DL_MSG"
    @@ "parse_event_wcdma_rrc_ul_msg" :> "WCDMA_RRC_UL_MSG"
    @@ "parse_event_wcdma_rrc_paging_drx_cycle" :> "WCDMA_RRC_PAGING_DRX_CYCLE"
    @@ "parse_event_wcdma_nas_msg" :> "WCDMA_NAS_MSG"
    @@ "parse_event_gsm_rach_attempt" :> "GSM_RACH_ATTEMPT"
    @@ "parse_event_gsm_rach_success" :> "GSM_RACH_SUCCESS"
    @@ "parse_event_gsm_rach_failure" :> "GSM_RACH_FAILURE"
    @@ "parse_event_gsm_cell_selection" :> "GSM_CELL_SELECTION"
    @@ "parse_event_gsm_cell_reselection" :> "GSM_CELL_RESELECTION"
    @@ "parse_event_nr_rrc_state_change" :> "NR_RRC_STATE_CHANGE"
    @@ "parse_event_nr_rrc_dl_msg" :> "NR_RRC_DL_MSG"
    @@ "parse_event_nr_rrc_ul_msg" :> "NR_RRC_UL_MSG"
    @@ "parse_event_nr_rrc_paging_drx_cycle" :> "NR_RRC_PAGING_DRX_CYCLE"
    @@ "parse_event_nr_nas_msg" :> "NR_NAS_MSG"

parse_event_structured(decoder, event_id, arg_bin) ==
    EventRecord(EventName(lte_structured_type[decoder]), event_id,
                HexText("lower", "", <<>>, arg_bin), <<>>)

\* log_content of DiagLteEventParser.parse_event_lte_rrc_timer_status
parse_event_lte_rrc_timer_status(arg_bin) == LogContent(HexText("lower", " ", <<>>, arg_bin))

\* "{:02x}".format(n) and "{:2x}".format(n): lower-case hex, padded to two
\* characters with the given pad character
FmtArg(pad, n) == [case |-> "lower", pad |-> pad, digits |-> HexDigits(n)]

rrc_state_map ==
    1 :> "RRC_IDLE_NOT_CAMPED" @@ 2 :> "RRC_IDLE_CAMPED" @@ 3 :> "RRC_CONNECTING"
    @@ 4 :> "RRC_CONNECTED" @@ 7 :> "RRC_CLOSING"

\* log_content of DiagLteEventParser.parse_event_lte_rrc_state_change
parse_event_lte_rrc_state_change(arg1) ==
    LogContent([rrc_state |-> IF arg1 \in DOMAIN rrc_state_map
                              THEN [known |-> TRUE, text |-> rrc_state_map[arg1]]
                              ELSE [known |-> FALSE, text |-> FmtArg("0", arg1)]])

channel_dl_map == 1 :> "BCCH" @@ 2 :> "PCCH" @@ 3 :> "CCCH" @@ 4 :> "DCCH"
message_type_dl_map ==
    0 :> "MasterInformationBlock" @@ 1 :> "SystemInformationBlockType1"
    @@ 2 :> "SystemInformationBlockType2" @@ 3 :> "SystemInformationBlockType3"
    @@ 4 :> "SystemInformationBlockType4" @@ 5 :> "SystemInformationBlockType5"
    @@ 6 :> "SystemInformationBlockType6" @@ 7 :> "SystemInformationBlockType7"
    @@ 64 :> "Paging" @@ 75 :> "RRCConnectionSetup"
    @@ 129 :> "DLInformationTransfer" @@ 133 :> "RRCConnectionRelease"
channel_ul_map == 5 :> "CCCH" @@ 6 :> "DCCH"
message_type_ul_map ==
    1 :> "RRCConnectionRequest" @@ 132 :> "RRCConnectionSetupComplete"
    @@ 137 :> "ULInformationTransfer"

\* the body shared by parse_event_lte_rrc_dl_msg and parse_event_lte_rrc_ul_msg
rrc_msg_content(channel_map, message_type_map, arg1, arg2) ==
    LogContent(
        [channel |-> IF arg1 \in DOMAIN channel_map THEN channel_map[arg1] ELSE "Unknown",
         message_type |-> IF arg2 \in DOMAIN message_type_map
                          THEN [known |-> TRUE, text |-> message_type_map[arg2]]
                          ELSE [known |-> FALSE, text |-> FmtArg(" ", arg2)]])

parse_event_lte_rrc_dl_msg(arg1, arg2) ==
    rrc_msg_content(channel_dl_map, message_type_dl_map, arg1, arg2)

parse_event_lte_rrc_ul_msg(arg1, arg2) ==
    rrc_msg_content(channel_ul_map, message_type_ul_map, arg1, arg2)

\* log_content of parse_event_lte_rrc_paging_drx_cycle and
\* parse_event_lte_ml1_phr_report: "{:02x} {:02x}".format(arg1, arg2)
parse_event_lte_two_args(arg1, arg2) ==
    LogContent(<< FmtArg("0", arg1), FmtArg("0", arg2) >>)

\* log_content of parse_event_lte_nas_ota_msg, parse_event_lte_emm_esm_timer
\* and parse_event_lte_rrc_state_change_trigger: "{:02x}".format(arg1)
parse_event_lte_one_arg(arg1) == LogContent(<< FmtArg("0", arg1) >>)

\* log_content of DiagLteEventParser.parse_event_lte_nas_msg:
\* struct.unpack('<L', arg1[:4]) needs exactly 4 bytes; the 32-bit id is kept
\* as its four bytes
parse_event_lte_nas_msg(arg1) ==
    IF Len(Slice(arg1, 0, 4)) < 4 THEN Raise("struct.error")
    ELSE LogContent([message_id |-> Slice(arg1, 0, 4)])

\* ===================================================== process tables
\* DiagGnssLogParser.process: log id -> decoder
gnss_process ==
    4996 :> "parse_cgps_pdsm_nmea_report"
    @@ 5238 :> "parse_gnss_position_report"
    @@ 5073 :> "parse_xo_frequency_estimation"
    @@ 16779 :> "parse_gnss_measurement_report"

\* DiagQCATMsgParser.process: log id -> decoder
qcat_process ==
    4248 :> "parse_ruim_debug"
    @@ 5444 :> "parse_qmi_message"
    @@ 4723 :> "parse_cm_phone_event"
    @@ 6555 :> "parse_pm_policy_stats"

\* DiagRfLogParser.process: log id -> decoder
rf_process ==
    6209 :> "parse_rf_asdiv"
    @@ 6637 :> "parse_atuner_detune_info"
    @@ 6217 :> "parse_rf_device_status"
    @@ 6391 :> "parse_rf_calibration_data"
    @@ 16761 :> "parse_rf_lte_tx_report"
    @@ 16852 :> "parse_rf_lte_rx_report"
    @@ 16774 :> "parse_rf_gsm_tx_report"
    @@ 16692 :> "parse_rf_wcdma_tx_report"
    @@ 16760 :> "parse_rf_power_report"
    @@ 16710 :> "parse_rf_antenna_report"

\* DiagUmtsNasLogParser.process: log id -> decoder
umts_nas_process ==
    29010 :> "parse_umts_nas_fplmn_list"
    @@ 28978 :> "parse_umts_nas_reg_state"
    @@ 28977 :> "parse_umts_nas_mm_state"
    @@ 28976 :> "parse_umts_nas_gmm_state"

\* DiagComprehensiveLogParser.process: log id -> decoder
comprehensive_process ==
    0 :> "parse_system_status"
    @@ 6340 :> "parse_rf_advanced_status"
    @@ 6339 :> "parse_rf_configuration_report"
    @@ 7282 :> "parse_system_configuration"
    @@ 7280 :> "parse_system_status_extended"
    @@ 7278 :> "parse_system_performance"
    @@ 4981 :> "parse_power_management_report"
    @@ 16854 :> "parse_rf_advanced_rx_report"
    @@ 16845 :> "parse_rf_calibration_status"
    @@ 16777 :> "parse_rf_power_management"
    @@ 16785 :> "parse_rf_system_report"
    @@ 16776 :> "parse_rf_configuration_status"

\* DiagWcdmaEnhancedLogParser.process: log id -> decoder
wcdma_enhanced_process ==
    16779 :> "parse_wcdma_flexible_dl_rlc_am_pdu"
    @@ 16926 :> "parse_wcdma_mac_ehs_reassembly"
    @@ 16692 :> "parse_wcdma_tx_report"
    @@ 16930 :> "parse_wcdma_advanced_report"
    @@ 17220 :> "parse_wcdma_multi_carrier_eul"
    @@ 17186 :> "parse_wcdma_diversity_report"
    @@ 17245 :> "parse_wcdma_calibration_report"

\* DiagWcdmaSignalingParser.process: log id -> decoder
wcdma_signaling_process ==
    16687 :> "parse_wcdma_signaling_messages"
    @@ 16693 :> "parse_wcdma_cell_id"
    @@ 17218 :> "parse_wcdma_search_cell_reselection"
    @@ 16959 :> "parse_wcdma_agc"
    @@ 16924 :> "parse_wcdma_finger_info"
    @@ 16851 :> "parse_wcdma_tx_agc_adj"
    @@ 17221 :> "parse_wcdma_rrc_states"
    @@ 16758 :> "parse_wcdma_rx_diversity"
    @@ 16818 :> "parse_wcdma_compressed_mode"
    @@ 6581 :> "parse_wcdma_rrc_ota_message"

\* the call one entry of a process table makes: lambda x, y, z: self.<decoder>(x, y, z)
CallDecoder(decoder, body) ==
    CASE decoder = "parse_atuner_detune_info" -> parse_atuner_detune_info(body)
      [] decoder = "parse_cgps_pdsm_nmea_report" -> parse_cgps_pdsm_nmea_report(body)
      [] decoder = "parse_cm_phone_event" -> parse_cm_phone_event(body)
      [] decoder = "parse_gnss_measurement_report" -> parse_gnss_measurement_report(body)
      [] decoder = "parse_gnss_position_report" -> parse_gnss_position_report(body)
      [] decoder = "parse_pm_policy_stats" -> parse_pm_policy_stats(body)
      [] decoder = "parse_power_management_report" -> parse_power_management_report(body)
      [] decoder = "parse_qmi_message" -> parse_qmi_message(body)
      [] decoder = "parse_rf_advanced_rx_report" -> parse_rf_advanced_rx_report(body)
      [] decoder = "parse_rf_advanced_status" -> parse_rf_advanced_status(body)
      [] decoder = "parse_rf_antenna_report" -> parse_version_only(version_only_titles[decoder], body)
      [] decoder = "parse_rf_asdiv" -> parse_rf_asdiv(body)
      [] decoder = "parse_rf_calibration_data" -> parse_rf_calibration_data(body)
      [] decoder = "parse_rf_calibration_status" -> parse_rf_calibration_status(body)
      [] decoder = "parse_rf_configuration_report" -> parse_rf_configuration_report(body)
      [] decoder = "parse_rf_configuration_status" -> parse_version_only(version_only_titles[decoder], body)
      [] decoder = "parse_rf_device_status" -> parse_rf_device_status(body)
      [] decoder = "parse_rf_gsm_tx_report" -> parse_version_only(version_only_titles[decoder], body)
      [] decoder = "parse_rf_lte_rx_report" -> parse_rf_lte_rx_report(body)
      [] decoder = "parse_rf_lte_tx_report" -> parse_rf_lte_tx_report(body)
      [] decoder = "parse_rf_power_management" -> parse_version_only(version_only_titles[decoder], body)
      [] decoder = "parse_rf_power_report" -> parse_version_only(version_only_titles[decoder], body)
      [] decoder = "parse_rf_system_report" -> parse_version_only(version_only_titles[decoder], body)
      [] decoder = "parse_rf_wcdma_tx_report" -> parse_version_only(version_only_titles[decoder], body)
      [] decoder = "parse_ruim_debug" -> parse_ruim_debug(body)
      [] decoder = "parse_system_configuration" -> parse_system_configuration(body)
      [] decoder = "parse_system_performance" -> parse_system_performance(body)
      [] decoder = "parse_system_status" -> parse_system_status(body)
      [] decoder = "parse_system_status_extended" -> parse_system_status_extended(body)
      [] decoder = "parse_umts_nas_fplmn_list" -> parse_umts_nas_fplmn_list(body)
      [] decoder = "parse_umts_nas_gmm_state" -> parse_umts_nas_gmm_state(body)
      [] decoder = "parse_umts_nas_mm_state" -> parse_umts_nas_mm_state(body)
      [] decoder = "parse_umts_nas_reg_state" -> parse_umts_nas_reg_state(body)
      [] decoder = "parse_wcdma_advanced_report" -> parse_version_only(version_only_titles[decoder], body)
      [] decoder = "parse_wcdma_agc" -> parse_wcdma_agc(body)
      [] decoder = "parse_wcdma_calibration_report" -> parse_version_only(version_only_titles[decoder], body)
      [] decoder = "parse_wcdma_cell_id" -> parse_wcdma_cell_id(body)
      [] decoder = "parse_wcdma_compressed_mode" -> parse_version_only(version_only_titles[decoder], body)
      [] decoder = "parse_wcdma_diversity_report" -> parse_version_only(version_only_titles[decoder], body)
      [] decoder = "parse_wcdma_finger_info" -> parse_wcdma_finger_info(body)
      [] decoder = "parse_wcdma_flexible_dl_rlc_am_pdu" -> parse_wcdma_flexible_dl_rlc_am_pdu(body)
      [] decoder = "parse_wcdma_mac_ehs_reassembly" -> parse_wcdma_mac_ehs_reassembly(body)
      [] decoder = "parse_wcdma_multi_carrier_eul" -> parse_wcdma_multi_carrier_eul(body)
      [] decoder = "parse_wcdma_rrc_ota_message" -> parse_version_only(version_only_titles[decoder], body)
      [] decoder = "parse_wcdma_rrc_states" -> parse_version_only(version_only_titles[decoder], body)
      [] decoder = "parse_wcdma_rx_diversity" -> parse_version_only(version_only_titles[decoder], body)
      [] decoder = "parse_wcdma_search_cell_reselection" -> parse_wcdma_search_cell_reselection(body)
      [] decoder = "parse_wcdma_signaling_messages" -> parse_wcdma_signaling_messages(body)
      [] decoder = "parse_wcdma_tx_agc_adj" -> parse_version_only(version_only_titles[decoder], body)
      [] decoder = "parse_wcdma_tx_report" -> parse_wcdma_tx_report(body)
      [] decoder = "parse_xo_frequency_estimation" -> parse_xo_frequency_estimation(body)

\* ========================================================= state machine
\* call:    the last decoder invocation (parser, decoder, id, timestamp,
\*          body bytes or integer arguments)
\* outcome: what that invocation returned or raised
\* has_message_type_names: DiagUnknownLogParser.message_type_names exists
\* unknown_process: the keys of DiagUnknownLogParser.process
\* common_header, lte_header: self.header of the two event parsers
VARIABLES call, outcome, has_message_type_names, unknown_process,
          common_header, lte_header

\* LiveTcpIO: its fields, the two threads' positions, the local `c` of read,
\* the peer, and what the caller's last call returned
VARIABLES server, client, client_lock, file_available, accept_pc, caller_pc, c,
          peer, returned, io_history

parser_vars == << call, outcome, has_message_type_names, unknown_process,
                  common_header, lte_header >>
\* TxtWriter: the mode, what was written to the file, the statistics
VARIABLES qcat_mode, file_handle, stats

tcp_vars == << server, client, client_lock, file_available, accept_pc, caller_pc, c,
               peer, returned, io_history >>
\* FileIO: the list objects of the program (the caller's list and the
\* device's own), which of them self.fnames refers to, the current name, the
\* open file, the availability flag, the outcome of the last call and what
\* happened so far
VARIABLES fio_lists, fio_fnames, fio_fname, fio_f, fio_file_available, fio_returned,
          fio_history

\* JsonWriter: self.data (the summary counters and the record lists)
VARIABLES json_data

txt_vars == << qcat_mode, file_handle, stats >>
json_vars == << json_data >>
file_vars == << fio_lists, fio_fnames, fio_fname, fio_f, fio_file_available, fio_returned,
                fio_history >>
io_vars == << tcp_vars, txt_vars, file_vars, json_vars >>
not_tcp_vars == << parser_vars, txt_vars, file_vars, json_vars >>
not_txt_vars == << parser_vars, tcp_vars, file_vars, json_vars >>
not_file_vars == << parser_vars, tcp_vars, txt_vars, json_vars >>
not_json_vars == << parser_vars, tcp_vars, txt_vars, file_vars >>

vars == << parser_vars, io_vars >>

Call(parser, decoder, id, ts, body, args) ==
    [parser |-> parser, decoder |-> decoder, id |-> id, ts |-> ts,
     body |-> body, args |-> args]

NoCall == Call("none", "none", 0, 0, <<>>, <<>>)

\* self.header = b'' of DiagCommonEventParser.__init__
EmptyHeader == EventHeader(0, 0, EventName(""))

\* the state after the parsers are constructed
\* ------------------------------------------------------- stdout as text
\* what each category parser appends after a line of stdout: "\n" in a Python
\* string literal is the newline character, "\\n" is a backslash and an n
Chars(cs) == [i \in DOMAIN cs |-> [kind |-> "char", char |-> cs[i]]]
line_end ==
    "gnss" :> Chars(<< "newline" >>) @@ "rf" :> Chars(<< "newline" >>)
    @@ "umts_nas" :> Chars(<< "newline" >>) @@ "comprehensive" :> Chars(<< "newline" >>)
    @@ "unknown" :> Chars(<< "newline" >>)
    @@ "wcdma_enhanced" :> Chars(<< "backslash", "n" >>)
    @@ "wcdma_signaling" :> Chars(<< "backslash", "n" >>)

\* the stdout string of a record: the text of every line (kept as its field)
\* followed by the parser's line end, character by character
RECURSIVE stdout_text(_, _)
stdout_text(parser, fields) ==
    IF fields = <<>> THEN <<>>
    ELSE << [kind |-> "text", field |-> Head(fields)] >> \o line_end[parser]
         \o stdout_text(parser, Tail(fields))

\* EnhancedQualcommParser._extract_structured_data: stdout_text.split('\n'),
\* then the lines that are not empty, in their order
extract_structured_lines(text) ==
    LET newline(i) == text[i].kind = "char" /\ text[i].char = "newline"
        starts(i) == ~newline(i) /\ (i = 1 \/ newline(i - 1))
        end(i) == LET later == {k \in i..Len(text) : newline(k)}
                  IN  IF later = {} THEN Len(text)
                      ELSE (CHOOSE k \in later : \A other \in later : k <= other) - 1
        first == SelectSeq([i \in 1..Len(text) |-> i], starts)
    IN  [n \in DOMAIN first |-> SubSeq(text, first[n], end(first[n]))]

\* ========================================================== txtwriter.py
\* what TxtWriter writes is kept as the sequence of the blocks it wrote: the
\* file header, a control-plane or user-plane block, a parsed-output block,
\* an event, a QCAT message, an unknown log packet
TxtHeader == [kind |-> "header"]

\* TxtWriter.__init__: the mode, zeroed statistics, the header written (the
\* seen-sets of the statistics, filled from the text of stdout lines, are
\* left out)
TxtInit(mode) ==
    /\ qcat_mode = mode
    /\ stats = [total_messages |-> 0, cellular_messages |-> 0]
    /\ file_handle = << TxtHeader >>

\* hex_bytes[i:i+16] for i in range(0, len(hex_bytes), 16)
RECURSIVE Chunks(_, _)
Chunks(tokens, n) ==
    IF tokens = <<>> THEN <<>>
    ELSE IF Len(tokens) <= n THEN << tokens >>
    ELSE << SubSeq(tokens, 1, n) >> \o Chunks(SubSeq(tokens, n + 1, Len(tokens)), n)

\* the payload lines of TxtWriter._write_event for a payload string: one that
\* starts with "0x" is split at white space, upper-cased, joined by single
\* spaces and wrapped 16 tokens a line; any other one is written as it is on
\* one line, and an empty one gives no line.  A line is its letter case, its
\* separator, what leads it and its tokens.
payload_lines(payload) ==
    IF payload.prefix # <<>> /\ Head(payload.prefix) = "0x"
    THEN LET hex_bytes == << Tail(payload.prefix) >> \o payload.groups
             chunks == Chunks(hex_bytes, 16)
         IN  [i \in DOMAIN chunks |->
                [case |-> "upper", sep |-> " ",
                 lead |-> IF i = 1 THEN << "0x" >> ELSE <<>>, tokens |-> chunks[i]]]
    ELSE IF payload.prefix # <<>> \/ payload.groups # <<>>
         THEN << [case |-> payload.case, sep |-> payload.sep,
                  lead |-> payload.prefix, tokens |-> payload.groups] >>
         ELSE <<>>

\* TxtWriter._write_event: the summary line, the payload lines and the
\* payload string
write_event(event) ==
    [kind |-> "event", type |-> event.type, id |-> event.id,
     lines |-> payload_lines(event.payload), payload_str |-> event.payload_str]

\* TxtWriter._write_qcat_message and TxtWriter._write_unknown_log
write_qcat_message(msg) == [kind |-> "qcat_msg", msg |-> msg]
write_unknown_log(unknown_log) ==
    [kind |-> "unknown_log", log_id |-> unknown_log.log_id, length |-> unknown_log.length,
     data |-> HexText("upper", " ", <<>>, SubSeq(unknown_log.body, 1, Min(Len(unknown_log.body), 64))),
     more |-> Len(unknown_log.body) > 64]

\* process_item over a list of entries
RECURSIVE process_item(_)
process_item(item) ==
    IF item = <<>> THEN <<>> ELSE << write_event(Head(item)) >> \o process_item(Tail(item))

\* ============================================================= fileio.py
\* the files of the model: their kinds (by the suffix _open_file looks for),
\* which of them exist, and what a file holds
FileKind == "a.qmdl" :> "plain" @@ "b.qmdl.gz" :> "gzip" @@ "c.qmdl.bz2" :> "bz2"
            @@ "gone.qmdl" :> "plain"
FileExists(fname) == fname # "gone.qmdl"
FileContent == << 126, 1, 2 >>

\* self.f: None, or a file object (open or closed) and its read position
NoFile == [name |-> "", kind |-> "None", closed |-> TRUE, pos |-> 0]
\* the outcome of a call: whether it raised, whether the read inside failed
\* and the bytes returned
FileReturn(op, raised, failed, data) ==
    [op |-> op, raised |-> raised, failed |-> failed, data |-> data]

\* fnames[:] evaluated to the caller's list itself
slice_copy_aliased(ref) == ref
\* fnames[:] : a new list object holding the same names
slice_copy(ref) == "own"

ReverseSeq(s) == [i \in DOMAIN s |-> s[Len(s) + 1 - i]]

\* FileIO._open_file on a device state: close the current file, then open
\* the named one (the open raises for a file that does not exist)
open_file(st, fname) ==
    LET closed == IF st.f.kind # "None" THEN [st.f EXCEPT !.closed = TRUE] ELSE st.f
    IN  IF FileExists(fname)
        THEN [st EXCEPT !.f = [name |-> fname, kind |-> FileKind[fname],
                               closed |-> FALSE, pos |-> 0],
                        !.returned = FileReturn("open_next_file", FALSE, FALSE, <<>>)]
        ELSE [st EXCEPT !.f = closed,
                        !.returned = FileReturn("open_next_file", TRUE, FALSE, <<>>)]

\* FileIO.open_next_file on a device state: pop the last name of self.fnames
\* and open it; with no name left, clear file_available
open_next_file(st) ==
    LET fnames == st.lists[st.fnames]
    IN  IF fnames = <<>>
        THEN [st EXCEPT !.file_available = FALSE,
                        !.returned = FileReturn("open_next_file", FALSE, FALSE, <<>>),
                        !.history.calls = @ + 1]
        ELSE LET popped == fnames[Len(fnames)]
             IN  open_file([st EXCEPT !.lists[st.fnames] = SubSeq(fnames, 1, Len(fnames) - 1),
                                      !.fname = popped,
                                      !.history.calls = @ + 1,
                                      !.history.opened = Append(@, popped)],
                           popped)

\* FileIO.__init__(fnames): the device state when the constructor returns
FileNew(fnames) ==
    LET own == slice_copy("caller")
        lists == [ref \in {"caller", "own"} |->
                    IF ref = own THEN ReverseSeq(fnames)
                    ELSE IF ref = "caller" THEN fnames ELSE <<>>]
    IN  open_next_file([lists |-> lists, fnames |-> own, fname |-> "", f |-> NoFile,
                        file_available |-> TRUE,
                        returned |-> FileReturn("__init__", FALSE, FALSE, <<>>),
                        history |-> [given |-> fnames, calls |-> 0, opened |-> <<>>]])

FileState ==
    [lists |-> fio_lists, fnames |-> fio_fnames, fname |-> fio_fname, f |-> fio_f,
     file_available |-> fio_file_available, returned |-> fio_returned,
     history |-> fio_history]

\* the device variables hold the device state st
FileIs(l, n, fn, f, fa, r, h, st) ==
    /\ l = st.lists
    /\ n = st.fnames
    /\ fn = st.fname
    /\ f = st.f
    /\ fa = st.file_available
    /\ r = st.returned
    /\ h = st.history

\* the device after FileIO(fnames) returned (the constructor raises, and
\* there is no device, when the first file does not exist)
FileInit(fnames) ==
    /\ ~FileNew(fnames).returned.raised
    /\ FileIs(fio_lists, fio_fnames, fio_fname, fio_f, fio_file_available, fio_returned,
              fio_history, FileNew(fnames))

MaxFiles == 3        \* longest list of names handed to the constructor
MaxOpenCalls == 5    \* open_next_file calls, the constructor's one included
MaxReadSize == 2     \* largest read_size

FileNames == DOMAIN FileKind
FileLists == UNION {[1..n -> FileNames] : n \in 0..MaxFiles}

\* FileIO.open_next_file
FileOpenNextFile ==
    /\ fio_history.calls < MaxOpenCalls
    /\ FileIs(fio_lists', fio_fnames', fio_fname', fio_f', fio_file_available',
              fio_returned', fio_history', open_next_file(FileState))
    /\ UNCHANGED not_file_vars

\* FileIO.read(read_size) with no file: None has no read, caught
FileReadNoFile ==
    /\ fio_f.kind = "None" \/ fio_f.closed
    /\ fio_returned' = FileReturn("read", FALSE, TRUE, <<>>)
    /\ UNCHANGED << fio_lists, fio_fnames, fio_fname, fio_f, fio_file_available,
                    fio_history, not_file_vars >>

\* FileIO.read(read_size) with an open file whose read raises (a damaged
\* compressed stream), caught
FileReadFails ==
    /\ fio_f.kind \in {"gzip", "bz2"} /\ ~fio_f.closed
    /\ fio_returned' = FileReturn("read", FALSE, TRUE, <<>>)
    /\ UNCHANGED << fio_lists, fio_fnames, fio_fname, fio_f, fio_file_available,
                    fio_history, not_file_vars >>

\* FileIO.read(read_size) with an open file: the next bytes, b'' at its end
FileRead ==
    /\ fio_f.kind # "None" /\ ~fio_f.closed
    /\ \E read_size \in 1..MaxReadSize :
        LET upto == Min(fio_f.pos + read_size, Len(FileContent))
        IN  /\ fio_returned' = FileReturn("read", FALSE, FALSE,
                                          SubSeq(FileContent, fio_f.pos + 1, upto))
            /\ fio_f' = [fio_f EXCEPT !.pos = upto]
    /\ UNCHANGED << fio_lists, fio_fnames, fio_fname, fio_file_available, fio_history,
                    not_file_vars >>

NextFile ==
    \/ FileOpenNextFile
    \/ FileReadNoFile
    \/ FileReadFails
    \/ FileRead

\* ========================================================== jsonwriter.py
\* the kinds of record write_parsed_data counts: the key of the parsed
\* result, and the list and summary counter of self.data
JsonKinds == << [key |-> "measurement", list |-> "measurements"],
                [key |-> "rrc_message", list |-> "rrc_messages"],
                [key |-> "nas_message", list |-> "nas_messages"],
                [key |-> "mac_message", list |-> "mac_messages"],
                [key |-> "event", list |-> "events"] >>
JsonLists == {JsonKinds[i].list : i \in DOMAIN JsonKinds}

\* JsonWriter.__init__: zeroed counters, empty lists
JsonInit ==
    json_data = [summary |-> [name \in JsonLists \cup {"total_messages", "cellular_messages"} |-> 0],
                 lists |-> [name \in JsonLists \cup {"raw_messages"} |-> <<>>]]

\* JsonWriter._increment_counter
increment_counter(data, counter_name) ==
    IF counter_name \in DOMAIN data.summary
    THEN [data EXCEPT !.summary[counter_name] = @ + 1] ELSE data

\* entry.copy() and entry_copy.update(extra_update)
entry_copy(entry, extra_update) ==
    [record |-> entry, timestamp |-> extra_update.timestamp, radio_id |-> extra_update.radio_id]

\* write_parsed_data.process_item without a unique key: an item is a dict
\* (one entry), a list (its entries in order) or anything else (nothing is
\* stored)
process_json_item(data, item, target_list, extra_update) ==
    IF item.shape \in {"dict", "list"}
    THEN [data EXCEPT !.lists[target_list] =
            @ \o [i \in DOMAIN item.entries |-> entry_copy(item.entries[i], extra_update)]]
    ELSE data

\* the part of JsonWriter.write_parsed_data for the kinds from index i on:
\* store the item of a kind the result carries, then count the kind once
RECURSIVE json_write_kinds(_, _, _, _)
json_write_kinds(data, parsed_result, extra_update, i) ==
    IF i > Len(JsonKinds) THEN data
    ELSE json_write_kinds(
            IF JsonKinds[i].key \in DOMAIN parsed_result
            THEN increment_counter(
                    process_json_item(data, parsed_result[JsonKinds[i].key],
                                      JsonKinds[i].list, extra_update),
                    JsonKinds[i].list)
            ELSE data,
            parsed_result, extra_update, i + 1)

\* JsonWriter.write_parsed_data for a result without cell, security and CA
\* entries
json_write_parsed_data(data, parsed_result, extra_update) ==
    increment_counter(json_write_kinds(data, parsed_result, extra_update, 1),
                      "cellular_messages")

MaxJsonCalls == 2     \* calls of each writer method
MaxJsonEntries == 2   \* longest list a parsed result carries for a kind

JsonRecord(key, n) == [type |-> key, n |-> n]
\* what a result carries for a kind: one record, a list of records, None
JsonItems(key) ==
    {[shape |-> "dict", entries |-> << JsonRecord(key, 1) >>],
     [shape |-> "None", entries |-> <<>>]}
    \cup {[shape |-> "list", entries |-> [i \in 1..n |-> JsonRecord(key, i)]] :
            n \in 0..MaxJsonEntries}
JsonKeySets == {{}, {"measurement", "event"}} \cup {{JsonKinds[i].key} : i \in DOMAIN JsonKinds}

\* JsonWriter.write_parsed_data
JsonWriteParsedData ==
    /\ json_data.summary["cellular_messages"] < MaxJsonCalls
    /\ \E keys \in JsonKeySets, shape \in {"dict", "None", "list"}, n \in 0..MaxJsonEntries,
          radio_id \in {0, 1} :
        /\ shape # "list" => n = 1
        /\ LET parsed_result ==
                    [key \in keys |->
                        CHOOSE item \in JsonItems(key) :
                            item.shape = shape /\ (shape = "list" => Len(item.entries) = n)]
            IN  json_data' = json_write_parsed_data(json_data, parsed_result,
                                    [timestamp |-> 1, radio_id |-> radio_id])
    /\ UNCHANGED not_json_vars

\* JsonWriter.write_cp and JsonWriter.write_up
JsonWriteRaw ==
    /\ json_data.summary["total_messages"] < MaxJsonCalls
    /\ \E type \in {"control_plane", "user_plane"}, sock_content \in {<<>>, << 1, 171 >>} :
        json_data' = [increment_counter(json_data, "total_messages")
                        EXCEPT !.lists["raw_messages"] =
                            Append(@, [type |-> type, length |-> Len(sock_content),
                                       data |-> HexText("lower", "", <<>>, sock_content)])]
    /\ UNCHANGED not_json_vars

NextJson ==
    \/ JsonWriteParsedData
    \/ JsonWriteRaw

\* ============================================================ tcpio.py
\* LiveTcpIO after __init__ / _setup_server: the server socket listens, no
\* client is stored, the accept thread is blocked in accept, the caller's
\* thread is between two calls
NoReturn == [op |-> "none", value |-> "none"]
TcpInit ==
    /\ server = "listening"
    /\ client = "none"
    /\ client_lock = "free"
    /\ file_available = TRUE
    /\ accept_pc = "accept"
    /\ caller_pc = "idle"
    /\ c = "none"
    /\ peer = "absent"
    /\ returned = NoReturn
    /\ io_history = [accepted |-> 0, client_gone |-> FALSE, close_returned |-> FALSE]

\* `with self.client_lock:` entered by thread t
Acquire(t) == client_lock = "free" /\ client_lock' = t

\* the caller's call returns value
Return(op, value) ==
    /\ caller_pc' = "idle"
    /\ returned' = [op |-> op, value |-> value]

\* _accept_loop: self.server.accept() returns the connection of a client
AcceptConnection ==
    /\ accept_pc = "accept" /\ server = "listening" /\ peer = "absent"
    /\ peer' = "connected"
    /\ accept_pc' = "lock"
    /\ io_history' = [io_history EXCEPT !.accepted = @ + 1]
    /\ UNCHANGED << server, client, client_lock, file_available, caller_pc, c, returned,
                    not_tcp_vars >>

\* _accept_loop: accept raises on the closed server socket
AcceptRaises ==
    /\ accept_pc = "accept" /\ server = "closed"
    /\ file_available' = FALSE
    /\ accept_pc' = "done"
    /\ UNCHANGED << server, client, client_lock, caller_pc, c, peer, returned, io_history,
                    not_tcp_vars >>

\* _accept_loop storing the client without entering client_lock
AcceptLock_not_taken ==
    /\ accept_pc = "lock"
    /\ accept_pc' = "store"
    /\ UNCHANGED << server, client, client_lock, file_available, caller_pc, c, peer,
                    returned, io_history, not_tcp_vars >>

\* _accept_loop: with self.client_lock
AcceptLock ==
    /\ accept_pc = "lock"
    /\ Acquire("accept")
    /\ accept_pc' = "store"
    /\ UNCHANGED << server, client, file_available, caller_pc, c, peer, returned,
                    io_history, not_tcp_vars >>

\* _accept_loop: self.client = client_sock, and the lock is released
AcceptStore ==
    /\ accept_pc = "store"
    /\ client' = "sock"
    /\ client_lock' = "free"
    /\ accept_pc' = "done"
    /\ UNCHANGED << server, file_available, caller_pc, c, peer, returned, io_history,
                    not_tcp_vars >>

\* the client closes its end of the connection
PeerDisconnects ==
    /\ peer = "connected"
    /\ peer' = "left"
    /\ UNCHANGED << server, client, client_lock, file_available, accept_pc, caller_pc, c,
                    returned, io_history, not_tcp_vars >>

\* the caller's thread enters read, write or close
CallerCalls(op) ==
    /\ caller_pc = "idle"
    /\ caller_pc' = op
    /\ returned' = NoReturn
    /\ c' = "none"
    /\ UNCHANGED << server, client, client_lock, file_available, accept_pc, peer,
                    io_history, not_tcp_vars >>

\* a step of the caller's thread that enters client_lock
CallerLocks(from, to) ==
    /\ caller_pc = from
    /\ Acquire("caller")
    /\ caller_pc' = to
    /\ UNCHANGED << server, client, file_available, accept_pc, c, peer, returned,
                    io_history, not_tcp_vars >>

ReadCall == CallerCalls("read_lock")

\* read: with self.client_lock (line 60)
ReadLock == CallerLocks("read_lock", "read_copy")

\* read: c = self.client, the lock is released, then `break` or time.sleep
ReadCopy ==
    /\ caller_pc = "read_copy"
    /\ c' = client
    /\ client_lock' = "free"
    /\ caller_pc' = IF client # "none" THEN "read_recv" ELSE "read_sleep"
    /\ UNCHANGED << server, client, file_available, accept_pc, peer, returned,
                    io_history, not_tcp_vars >>

\* read: after the sleep, `if not self.file_available: return b''`, else retry
ReadWake ==
    /\ caller_pc = "read_sleep"
    /\ IF ~file_available THEN Return("read", "eof")
       ELSE caller_pc' = "read_lock" /\ UNCHANGED returned
    /\ UNCHANGED << server, client, client_lock, file_available, accept_pc, c, peer,
                    io_history, not_tcp_vars >>

\* read: c.recv returns bytes of the connected client
ReadRecvData ==
    /\ caller_pc = "read_recv" /\ peer = "connected"
    /\ Return("read", "data")
    /\ UNCHANGED << server, client, client_lock, file_available, accept_pc, c, peer,
                    io_history, not_tcp_vars >>

\* read: c.recv returns b'' (the client disconnected)
ReadRecvEmpty ==
    /\ caller_pc = "read_recv" /\ peer = "left"
    /\ caller_pc' = "read_eof_lock"
    /\ io_history' = [io_history EXCEPT !.client_gone = TRUE]
    /\ UNCHANGED << server, client, client_lock, file_available, accept_pc, c, peer,
                    returned, not_tcp_vars >>

\* read: c.recv raises
ReadRecvRaises ==
    /\ caller_pc = "read_recv"
    /\ caller_pc' = "read_err_lock"
    /\ io_history' = [io_history EXCEPT !.client_gone = TRUE]
    /\ UNCHANGED << server, client, client_lock, file_available, accept_pc, c, peer,
                    returned, not_tcp_vars >>

\* read: with self.client_lock (line 72)
ReadEofLock == CallerLocks("read_eof_lock", "read_eof_clear")

\* read: with self.client_lock (line 83)
ReadErrLock == CallerLocks("read_err_lock", "read_err_clear")

\* a block of the caller's thread that closes and clears self.client (if it
\* is set) and leaves client_lock
CallerClears(from, to) ==
    /\ caller_pc = from
    /\ client' = "none"
    /\ client_lock' = "free"
    /\ caller_pc' = to
    /\ UNCHANGED << server, file_available, accept_pc, c, peer, returned, io_history,
                    not_tcp_vars >>

\* read: c.close(); self.client = None (lines 73-77)
ReadEofClear == CallerClears("read_eof_clear", "read_flag")

\* read: if self.client: self.client.close(); self.client = None (lines 84-89)
ReadErrClear == CallerClears("read_err_clear", "read_flag")

\* read that returns b'' after a disconnect and leaves file_available alone
ReadSignalsEof_flag_kept ==
    /\ caller_pc = "read_flag"
    /\ Return("read", "eof")
    /\ UNCHANGED << server, client, client_lock, file_available, accept_pc, c, peer,
                    io_history, not_tcp_vars >>

\* read: self.file_available = False; return b''
ReadSignalsEof ==
    /\ caller_pc = "read_flag"
    /\ file_available' = FALSE
    /\ Return("read", "eof")
    /\ UNCHANGED << server, client, client_lock, accept_pc, c, peer, io_history,
                    not_tcp_vars >>

WriteCall == CallerCalls("write_lock")

\* write: with self.client_lock
WriteLock == CallerLocks("write_lock", "write_send")

\* write: if self.client: self.client.sendall(write_buf), raises swallowed
WriteSend ==
    /\ caller_pc = "write_send"
    /\ client_lock' = "free"
    /\ Return("write", IF client # "none" THEN "sent" ELSE "none")
    /\ UNCHANGED << server, client, file_available, accept_pc, c, peer, io_history,
                    not_tcp_vars >>

\* open_next_file: self.file_available = False
TcpOpenNextFile ==
    /\ caller_pc = "idle"
    /\ file_available' = FALSE
    /\ returned' = [op |-> "open_next_file", value |-> "none"]
    /\ UNCHANGED << server, client, client_lock, accept_pc, caller_pc, c, peer,
                    io_history, not_tcp_vars >>

CloseCall == CallerCalls("close_lock")

\* close: with self.client_lock
CloseLock == CallerLocks("close_lock", "close_client")

\* close: if self.client: self.client.close(); self.client = None
CloseClient == CallerClears("close_client", "close_server")

\* close: self.server.close()
CloseServer ==
    /\ caller_pc = "close_server"
    /\ server' = "closed"
    /\ caller_pc' = "close_flag"
    /\ UNCHANGED << client, client_lock, file_available, accept_pc, c, peer, returned,
                    io_history, not_tcp_vars >>

\* close: self.file_available = False, and close returns
CloseReturns ==
    /\ caller_pc = "close_flag"
    /\ file_available' = FALSE
    /\ Return("close", "none")
    /\ io_history' = [io_history EXCEPT !.close_returned = TRUE]
    /\ UNCHANGED << server, client, client_lock, accept_pc, c, peer, not_tcp_vars >>

\* the steps of a call in progress on the caller's thread
CallerStep ==
    \/ ReadLock \/ ReadCopy \/ ReadWake \/ ReadRecvData \/ ReadRecvEmpty
    \/ ReadEofLock \/ ReadErrLock \/ ReadEofClear \/ ReadErrClear \/ ReadSignalsEof
    \/ WriteLock \/ WriteSend \/ CloseLock \/ CloseClient \/ CloseServer \/ CloseReturns

NextTcp ==
    \/ AcceptConnection
    \/ AcceptRaises
    \/ AcceptLock
    \/ AcceptStore
    \/ PeerDisconnects
    \/ ReadCall
    \/ ReadLock
    \/ ReadCopy
    \/ ReadWake
    \/ ReadRecvData
    \/ ReadRecvEmpty
    \/ ReadRecvRaises
    \/ ReadEofLock
    \/ ReadErrLock
    \/ ReadEofClear
    \/ ReadErrClear
    \/ ReadSignalsEof
    \/ WriteCall
    \/ WriteLock
    \/ WriteSend
    \/ TcpOpenNextFile
    \/ CloseCall
    \/ CloseLock
    \/ CloseClient
    \/ CloseServer
    \/ CloseReturns

ParserInit ==
    /\ call = NoCall
    /\ outcome = NoOutcome
    /\ has_message_type_names = FALSE
    /\ unknown_process = {}
    /\ common_header = EmptyHeader
    /\ lte_header = EmptyHeader

\* the parsers, the TCP device and the TXT writer (in its default mode) after
\* construction
Init ==
    /\ ParserInit
    /\ TcpInit
    /\ TxtInit(TRUE)
    /\ FileInit(<< "a.qmdl" >>)
    /\ JsonInit

\* packet bodies: every length up to MaxBodyLen, filled with one byte value
\* or with the ramp 1, 2, 3, ...
Fill(n, b) == [i \in 1..n |-> b]
Ramp(n) == [i \in 1..n |-> i % 256]
Bodies == {Fill(n, b) : n \in 0..MaxBodyLen, b \in FillBytes}
          \cup {Ramp(n) : n \in 0..MaxBodyLen}

\* decoding is synchronous: the framer delivers one packet at a time, the
\* next one after the record of the previous one was forwarded
Idle == call = NoCall

\* the caller forwards the record to the writer (or skips the packet) and
\* continues with the next packet; the parser instances keep their state
ForwardRecord ==
    /\ call # NoCall
    /\ call' = NoCall
    /\ outcome' = NoOutcome
    /\ UNCHANGED << has_message_type_names, unknown_process,
                    common_header, lte_header, io_vars >>

\* one log packet is handed to the decoder its id is registered for
ParseLog(parser, process) ==
    /\ Idle
    /\ \E log_id \in DOMAIN process, body \in Bodies :
        /\ call' = Call(parser, process[log_id], log_id, 0, body, <<>>)
        /\ outcome' = CallDecoder(process[log_id], body)
        /\ UNCHANGED << has_message_type_names, unknown_process,
                        common_header, lte_header, io_vars >>

GnssParse == ParseLog("gnss", gnss_process)
QcatParse == ParseLog("qcat", qcat_process)
RfParse == ParseLog("rf", rf_process)
UmtsNasParse == ParseLog("umts_nas", umts_nas_process)
ComprehensiveParse == ParseLog("comprehensive", comprehensive_process)
WcdmaEnhancedParse == ParseLog("wcdma_enhanced", wcdma_enhanced_process)
WcdmaSignalingParse == ParseLog("wcdma_signaling", wcdma_signaling_process)

\* QMI bodies: a 15-byte header (the ramp 1..15) followed by every byte
\* string over 0..MaxTlvByte of at most MaxTlvTail bytes, or by the two TLVs
\* (0x01, len 2, AA BB) and (0x02, len 0)
QmiHeader == Ramp(15)
QmiExampleTail == << 1, 2, 0, 170, 187, 2, 0, 0 >>
QmiTails == UNION {[1..n -> 0..MaxTlvByte] : n \in 0..MaxTlvTail} \cup {QmiExampleTail}

\* one QMI packet (0x1544) is handed to parse_qmi_message
QmiParse ==
    /\ Idle
    /\ \E tail \in QmiTails :
        /\ call' = Call("qcat", qcat_process[5444], 5444, 0, QmiHeader \o tail, <<>>)
        /\ outcome' = CallDecoder(qcat_process[5444], QmiHeader \o tail)
        /\ UNCHANGED << has_message_type_names, unknown_process,
                        common_header, lte_header, io_vars >>

NextQmi ==
    \/ QmiParse
    \/ ForwardRecord

SpecQmi == Init /\ [][NextQmi]_vars

\* FPLMN entries: three BCD bytes (b0 = MCC2|MCC1, b1 = MNC3|MCC3,
\* b2 = MNC2|MNC1) with digits up to the bounds, the filler 0xF allowed in the
\* high nibble of b1 only, and the entry 13 F8 23
PlmnExample == << 19, 248, 35 >>
PlmnEntries ==
    { << d1 + 16 * d2, d3 + 16 * m3, m1 + 16 * m2 >> :
        d1 \in 0..MaxMccDigit, d2 \in 0..MaxMccDigit, d3 \in 0..MaxMccDigit,
        m1 \in 0..MaxMncDigit, m2 \in 0..MaxMncDigit,
        m3 \in (0..MaxMncDigit) \cup {15} }
    \cup {PlmnExample}

\* one FPLMN list packet (0x7152) holding two entries is handed to
\* parse_umts_nas_fplmn_list
FplmnParse ==
    /\ Idle
    /\ \E e1 \in PlmnEntries, e2 \in PlmnEntries :
        LET body == << 1, 2, 0, 0 >> \o e1 \o e2
        IN  /\ call' = Call("umts_nas", umts_nas_process[29010], 29010, 0, body, <<>>)
            /\ outcome' = CallDecoder(umts_nas_process[29010], body)
            /\ UNCHANGED << has_message_type_names, unknown_process,
                            common_header, lte_header, io_vars >>

NextPlmn ==
    \/ FplmnParse
    \/ ForwardRecord

SpecPlmn == Init /\ [][NextPlmn]_vars

\* ids handed to the fallback decoder: every id it names or treats
\* specially, and ids it knows nothing about (the two ends of 0..0xFFFF
\* included)
UnknownLogIds ==
    DOMAIN message_type_names
    \cup {5444, 4723, 6552, 6340, 6339, 7282, 7280, 7278,
          16854, 16845, 16777, 16785, 16776, 4981}
    \cup {0, 171, 4660, 65535}
UnknownRegisterIds == {4660, 5444}
UnknownBodies == {Fill(n, b) : n \in 0..MaxUnknownLen, b \in FillBytes}
                 \cup {Ramp(n) : n \in 0..MaxUnknownLen}

\* DiagUnknownLogParser.update_parameters: assigns self.message_type_names
UpdateParameters ==
    /\ Idle
    /\ has_message_type_names' = TRUE
    /\ UNCHANGED << call, outcome, unknown_process, common_header, lte_header, io_vars >>

\* DiagUnknownLogParser.register_unknown_log_id
RegisterUnknownLogId ==
    /\ Idle
    /\ \E log_id \in UnknownRegisterIds :
        /\ unknown_process' = IF log_id \notin unknown_process
                              THEN unknown_process \cup {log_id}
                              ELSE unknown_process
        /\ UNCHANGED << call, outcome, has_message_type_names,
                        common_header, lte_header, io_vars >>

\* one packet is handed to DiagUnknownLogParser.parse_unknown_log_packet
UnknownParse ==
    /\ Idle
    /\ \E log_id \in UnknownLogIds, body \in UnknownBodies :
        /\ call' = Call("unknown", "parse_unknown_log_packet", log_id, 0, body, <<>>)
        /\ outcome' = parse_unknown_log_packet(has_message_type_names, log_id, body)
        /\ UNCHANGED << has_message_type_names, unknown_process,
                        common_header, lte_header, io_vars >>

NextUnknown ==
    \/ UpdateParameters
    \/ RegisterUnknownLogId
    \/ UnknownParse
    \/ ForwardRecord

SpecUnknown == Init /\ [][NextUnknown]_vars

\* event calls: timestamps, ids registered in one table, in the other, in
\* both and in neither, byte payloads of every length up to MaxPayloadLen
\* (an ASCII letter or the byte 0xFF throughout) and integer arguments
Timestamps == {0, 1}
AbsentEventIds == {0, 9999}
EventIds == {1605, 1627, 1682, 2100, 2127, 2865, 2866} \cup AbsentEventIds
PayloadBytes == {65, 255}
EventPayloads == {Fill(n, b) : n \in 0..MaxPayloadLen, b \in PayloadBytes}
\* payloads of the QSHRINK event: the byte payloads, a diag id followed by a
\* GUID (one byte value throughout, the ramp 1, 2, ..., or the GUID
\* DDFEB316-0AE3-A2C2-D24F-3EE7F2CF5AA3 after the diag id 7) and a payload
\* one byte longer than that
QshrinkExample == << 7, 221, 254, 179, 22, 10, 227, 162, 194, 210, 79, 62, 231, 242, 207, 90, 163 >>
QshrinkPayloads ==
    EventPayloads \cup {Fill(GuidLen + 1, b) : b \in PayloadBytes}
    \cup {Ramp(GuidLen + 1), Ramp(GuidLen + 2), QshrinkExample}
\* payloads of the process-name event: the byte payloads, the diag id 7
\* followed by "msm/modem/wlan_pd" and a NUL, and a name mixing ASCII letters
\* with the byte 0xFF
ProcessNameExample ==
    << 7, 109, 115, 109, 47, 109, 111, 100, 101, 109, 47, 119, 108, 97, 110, 95, 112, 100, 0 >>
ProcessNamePayloads == EventPayloads \cup {ProcessNameExample, << 7, 65, 255, 66 >>}
ArgValues == {1, 5, 132, 200}

EventUnchanged == UNCHANGED << has_message_type_names, unknown_process,
                              common_header, lte_header, io_vars >>

\* a call of a @build_header decoder of DiagCommonEventParser
CommonWrappedCall(decoder, ts, event_id, arg_bin, content) ==
    LET header == build_header(common_event_process, ts, event_id)
    IN  /\ call' = Call("common_event", decoder, event_id, ts, arg_bin, <<>>)
        /\ common_header' = IF header.kind = "Raise" THEN common_header ELSE header
        /\ outcome' = Wrapped(header, content)
        /\ UNCHANGED << has_message_type_names, unknown_process, lte_header, io_vars >>

\* a @build_header decoder of DiagLteEventParser whose decorator runs the
\* decoder before it stores the header of the current event
LteWrappedCall_header_stored_late(decoder, ts, event_id, body, args, content) ==
    LET header == build_header(lte_event_process, ts, event_id)
    IN  /\ call' = Call("lte_event", decoder, event_id, ts, body, args)
        /\ lte_header' = IF header.kind = "Raise" THEN lte_header ELSE header
        /\ outcome' = Wrapped(IF header.kind = "Raise" THEN header ELSE lte_header, content)
        /\ UNCHANGED << has_message_type_names, unknown_process, common_header, io_vars >>

\* a call of a @build_header decoder of DiagLteEventParser
LteWrappedCall(decoder, ts, event_id, body, args, content) ==
    LET header == build_header(lte_event_process, ts, event_id)
    IN  /\ call' = Call("lte_event", decoder, event_id, ts, body, args)
        /\ lte_header' = IF header.kind = "Raise" THEN lte_header ELSE header
        /\ outcome' = Wrapped(header, content)
        /\ UNCHANGED << has_message_type_names, unknown_process, common_header, io_vars >>

ParseEventCommon ==
    /\ Idle
    /\ \E ts \in Timestamps, event_id \in EventIds, arg_bin \in EventPayloads :
        /\ call' = Call("common_event", "parse_event_common", event_id, ts, arg_bin, <<>>)
        /\ outcome' = parse_event_common(event_id, arg_bin)
        /\ EventUnchanged



\* parse_event_ipv6_sm_event or parse_event_ipv6_prefix_update
ParseEventIpv6 ==
    /\ Idle
    /\ \E decoder \in {"parse_event_ipv6_sm_event", "parse_event_ipv6_prefix_update"},
          ts \in Timestamps, event_id \in EventIds, arg_bin \in EventPayloads :
        CommonWrappedCall(decoder, ts, event_id, arg_bin, parse_event_ipv6(arg_bin))

ParseEventDiagQshrinkId ==
    /\ Idle
    /\ \E ts \in Timestamps, event_id \in EventIds, arg_bin \in QshrinkPayloads :
        /\ call' = Call("common_event", "parse_event_diag_qshrink_id", event_id, ts,
                        arg_bin, <<>>)
        /\ outcome' = parse_event_diag_qshrink_id(event_id, arg_bin)
        /\ EventUnchanged

ParseEventDiagProcessNameId ==
    /\ Idle
    /\ \E ts \in Timestamps, event_id \in EventIds, arg_bin \in ProcessNamePayloads :
        /\ call' = Call("common_event", "parse_event_diag_process_name_id", event_id, ts,
                        arg_bin, <<>>)
        /\ outcome' = parse_event_diag_process_name_id(event_id, arg_bin)
        /\ EventUnchanged

\* one of the structured WCDMA / GSM / NR decoders of DiagLteEventParser
ParseEventStructured ==
    /\ Idle
    /\ \E decoder \in DOMAIN lte_structured_type, ts \in Timestamps,
          event_id \in EventIds, arg_bin \in EventPayloads :
        /\ call' = Call("lte_event", decoder, event_id, ts, arg_bin, <<>>)
        /\ outcome' = parse_event_structured(decoder, event_id, arg_bin)
        /\ EventUnchanged

ParseEventLteRrcTimerStatus ==
    /\ Idle
    /\ \E ts \in Timestamps, event_id \in EventIds, arg_bin \in EventPayloads :
        LteWrappedCall("parse_event_lte_rrc_timer_status", ts, event_id, arg_bin, <<>>,
                       parse_event_lte_rrc_timer_status(arg_bin))

ParseEventLteNasMsg ==
    /\ Idle
    /\ \E ts \in Timestamps, event_id \in EventIds, arg1 \in EventPayloads :
        LteWrappedCall("parse_event_lte_nas_msg", ts, event_id, arg1, <<>>,
                       parse_event_lte_nas_msg(arg1))

ParseEventLteRrcStateChange ==
    /\ Idle
    /\ \E ts \in Timestamps, event_id \in EventIds, arg1 \in ArgValues :
        LteWrappedCall("parse_event_lte_rrc_state_change", ts, event_id, <<>>, << arg1 >>, parse_event_lte_rrc_state_change(arg1))




ParseEventLteRrcDlMsg ==
    /\ Idle
    /\ \E ts \in Timestamps, event_id \in EventIds, arg1 \in ArgValues, arg2 \in ArgValues :
        LteWrappedCall("parse_event_lte_rrc_dl_msg", ts, event_id, <<>>, << arg1, arg2 >>, parse_event_lte_rrc_dl_msg(arg1, arg2))

ParseEventLteRrcUlMsg ==
    /\ Idle
    /\ \E ts \in Timestamps, event_id \in EventIds, arg1 \in ArgValues, arg2 \in ArgValues :
        LteWrappedCall("parse_event_lte_rrc_ul_msg", ts, event_id, <<>>, << arg1, arg2 >>, parse_event_lte_rrc_ul_msg(arg1, arg2))



\* parse_event_lte_nas_ota_msg, parse_event_lte_emm_esm_timer or
\* parse_event_lte_rrc_state_change_trigger
ParseEventLteOneArg ==
    /\ Idle
    /\ \E decoder \in {"parse_event_lte_nas_ota_msg", "parse_event_lte_emm_esm_timer",
                        "parse_event_lte_rrc_state_change_trigger"},
          ts \in Timestamps, event_id \in EventIds, arg1 \in ArgValues :
        LteWrappedCall(decoder, ts, event_id, <<>>, << arg1 >>, parse_event_lte_one_arg(arg1))

\* parse_event_lte_rrc_paging_drx_cycle or parse_event_lte_ml1_phr_report
ParseEventLteTwoArgs ==
    /\ Idle
    /\ \E decoder \in {"parse_event_lte_rrc_paging_drx_cycle",
                        "parse_event_lte_ml1_phr_report"},
          ts \in Timestamps, event_id \in EventIds, arg1 \in ArgValues, arg2 \in ArgValues :
        LteWrappedCall(decoder, ts, event_id, <<>>, << arg1, arg2 >>,
                       parse_event_lte_two_args(arg1, arg2))

NextEvent ==
    \/ ParseEventCommon
    \/ ParseEventIpv6
    \/ ParseEventDiagQshrinkId
    \/ ParseEventDiagProcessNameId
    \/ ParseEventStructured
    \/ ParseEventLteRrcTimerStatus
    \/ ParseEventLteNasMsg
    \/ ParseEventLteRrcStateChange
    \/ ParseEventLteRrcDlMsg
    \/ ParseEventLteRrcUlMsg
    \/ ParseEventLteOneArg
    \/ ParseEventLteTwoArgs
    \/ ForwardRecord

SpecEvent == Init /\ [][NextEvent]_vars

\* system status bodies: a version byte, three bytes, the four bytes of the
\* status flags (every low byte up to MaxFlagsByte, the upper bytes all clear
\* or all set) and up to MaxStatusTail further bytes
SystemStatusBodies ==
    { << version, 0, 0, 0, low, high, high, high >> \o Fill(tail, 170) :
        version \in {0, 1}, low \in 0..MaxFlagsByte, high \in {0, 255},
        tail \in 0..MaxStatusTail }

\* one packet 0x0000 is handed to DiagComprehensiveLogParser.parse_system_status
SystemStatusParse ==
    /\ Idle
    /\ \E body \in SystemStatusBodies :
        /\ call' = Call("comprehensive", comprehensive_process[0], 0, 0, body, <<>>)
        /\ outcome' = CallDecoder(comprehensive_process[0], body)
        /\ UNCHANGED << has_message_type_names, unknown_process,
                        common_header, lte_header, io_vars >>

NextSystemStatus ==
    \/ SystemStatusParse
    \/ ForwardRecord

SpecSystemStatus == Init /\ [][NextSystemStatus]_vars

\* the process table of each category parser
category_process ==
    "gnss" :> gnss_process @@ "qcat" :> qcat_process @@ "rf" :> rf_process
    @@ "umts_nas" :> umts_nas_process @@ "comprehensive" :> comprehensive_process
    @@ "wcdma_enhanced" :> wcdma_enhanced_process
    @@ "wcdma_signaling" :> wcdma_signaling_process

\* bodies for the decoders that print a power level or a temperature: a
\* version byte, one more byte, then the same 16-bit word (low byte, high
\* byte) at every even offset from 2 to 22
ScaledLowBytes == 0..MaxScaledLowByte \cup {128, 240, 255}
ScaledHighBytes == {0, 127, 128, 255}
ScaledBodies ==
    { [i \in 1..24 |-> IF i = 1 THEN 1 ELSE IF i = 2 THEN 0
                        ELSE IF i % 2 = 1 THEN low ELSE high] :
        low \in ScaledLowBytes, high \in ScaledHighBytes }

\* the table entries of the log decoders that print a dBm or a degrees C value
ScaledEntries ==
    { << "comprehensive", 6340 >>, << "comprehensive", 4981 >>, << "comprehensive", 16854 >>,
      << "rf", 6209 >>, << "rf", 16761 >>, << "rf", 16852 >>,
      << "wcdma_enhanced", 16692 >>, << "wcdma_signaling", 17218 >> }

\* one packet is handed to a decoder that prints a power level or temperature
ScaledParse ==
    /\ Idle
    /\ \E entry \in ScaledEntries, body \in ScaledBodies :
        LET decoder == category_process[entry[1]][entry[2]]
        IN  /\ call' = Call(entry[1], decoder, entry[2], 0, body, <<>>)
            /\ outcome' = CallDecoder(decoder, body)
            /\ UNCHANGED << has_message_type_names, unknown_process,
                            common_header, lte_header, io_vars >>

\* one advanced RF packet (0x41D6) is handed to the fallback decoder, whose
\* _parse_advanced_rf_details prints a power level
ScaledUnknownParse ==
    /\ Idle
    /\ \E body \in ScaledBodies :
        /\ call' = Call("unknown", "parse_unknown_log_packet", 16854, 0, body, <<>>)
        /\ outcome' = parse_unknown_log_packet(has_message_type_names, 16854, body)
        /\ UNCHANGED << has_message_type_names, unknown_process,
                        common_header, lte_header, io_vars >>

NextScaled ==
    \/ ScaledParse
    \/ ScaledUnknownParse
    \/ UpdateParameters
    \/ ForwardRecord

SpecScaled == Init /\ [][NextScaled]_vars

\* RUIM debug bodies: a direction byte followed by an APDU (class byte,
\* instruction byte, up to MaxRuimPad further bytes, two status words), by
\* the status words alone, by one byte or by nothing; and the empty body
RuimDirections == {0, 1, 2, 255}
RuimClasses == {0, 5}
RuimInstructions == {164, 176, 192, 0, 255}
RuimSw1 == {144, 145, 106, 107, 111, 1}
RuimSw2 == {0, 5}
RuimData ==
    { << cla, ins >> \o Fill(pad, 7) \o << sw1, sw2 >> :
        cla \in RuimClasses, ins \in RuimInstructions, pad \in 0..MaxRuimPad,
        sw1 \in RuimSw1, sw2 \in RuimSw2 }
    \cup { << sw1, sw2 >> : sw1 \in RuimSw1, sw2 \in RuimSw2 }
    \cup { << sw2 >> : sw2 \in RuimSw2 } \cup { <<>> }
RuimBodies == { << direction >> \o data : direction \in RuimDirections, data \in RuimData }
              \cup { <<>> }

\* one packet 0x1098 is handed to DiagQCATMsgParser.parse_ruim_debug
RuimParse ==
    /\ Idle
    /\ \E body \in RuimBodies :
        /\ call' = Call("qcat", qcat_process[4248], 4248, 0, body, <<>>)
        /\ outcome' = CallDecoder(qcat_process[4248], body)
        /\ UNCHANGED << has_message_type_names, unknown_process,
                        common_header, lte_header, io_vars >>

NextRuim ==
    \/ RuimParse
    \/ ForwardRecord

SpecRuim == Init /\ [][NextRuim]_vars

\* bodies for the decoders with a count-driven loop: every length up to
\* MaxRepeatLen and the lengths around the longest loops' caps, the count
\* bytes (offsets 1, 2, 3 and 22) set to one value and every other byte to a
\* fill value
RepeatLens == 0..MaxRepeatLen \cup {104, 105, 170, 172, 327, 328, 340, 515, 516, 532}
RepeatCounts == {0, 1, 7, 8, 9, 16, 17, 32, 33, 255}
RepeatFills == {0, 1, 5, 255}
RepeatBodies ==
    { [i \in 1..n |-> IF i \in {2, 3, 4, 23} THEN count ELSE fill] :
        n \in RepeatLens, count \in RepeatCounts, fill \in RepeatFills }

\* the table entries of the log decoders that loop over a count byte
RepeatEntries ==
    { << "gnss", 16779 >>, << "rf", 6637 >>, << "umts_nas", 29010 >>,
      << "comprehensive", 6339 >>, << "comprehensive", 7280 >>,
      << "wcdma_enhanced", 16779 >>, << "wcdma_enhanced", 16926 >>,
      << "wcdma_signaling", 16687 >>, << "wcdma_signaling", 17218 >>,
      << "wcdma_signaling", 16924 >> }

\* one packet is handed to a decoder with a count-driven loop
RepeatParse ==
    /\ Idle
    /\ \E entry \in RepeatEntries, body \in RepeatBodies :
        LET decoder == category_process[entry[1]][entry[2]]
        IN  /\ call' = Call(entry[1], decoder, entry[2], 0, body, <<>>)
            /\ outcome' = CallDecoder(decoder, body)
            /\ UNCHANGED << has_message_type_names, unknown_process,
                            common_header, lte_header, io_vars >>

NextRepeat ==
    \/ RepeatParse
    \/ ForwardRecord

SpecRepeat == Init /\ [][NextRepeat]_vars

\* ============================================================ TxtWriter
MaxTxtCalls == 2          \* calls that count a message
MaxTxtPayloadLen == 33    \* longest event payload handed to the writer

TxtPayloadLens == {0, 1, 2, 16, 17, 18, 32, MaxTxtPayloadLen}
TxtPayloads == {Fill(n, 171) : n \in TxtPayloadLens}
TxtDecoders == {"parse_event_common", "parse_event_diag_qshrink_id",
                "parse_event_diag_process_name_id", "parse_event_wcdma_nas_msg"}
\* the record a structured event decoder returns for a payload
TxtDecode(decoder, arg_bin) ==
    CASE decoder = "parse_event_common" -> parse_event_common(1, arg_bin)
      [] decoder = "parse_event_diag_qshrink_id" -> parse_event_diag_qshrink_id(2865, arg_bin)
      [] decoder = "parse_event_diag_process_name_id" ->
            parse_event_diag_process_name_id(2866, arg_bin)
      [] OTHER -> parse_event_structured(decoder, 1606, arg_bin)
TxtSockContents == {<<>>, << 1, 171 >>}
TxtStdoutTexts ==
    {<<>>, stdout_text("gnss", << 1 >>), stdout_text("gnss", << 1, 2 >>),
     Chars(<< "newline" >>)}
TxtUnknownLogs ==
    {[log_id |-> 4660, length |-> Len(body), body |-> body] : body \in {<<>>, Fill(65, 171)}}

\* room for one more call: the calls that count a message and the blocks
\* written are bounded
TxtRoom ==
    /\ stats.total_messages + stats.cellular_messages < MaxTxtCalls
    /\ Len(file_handle) <= MaxTxtCalls

\* TxtWriter.write_cp
WriteCp ==
    /\ TxtRoom
    /\ \E sock_content \in TxtSockContents :
        IF qcat_mode THEN UNCHANGED << file_handle, stats >>
        ELSE /\ stats' = [stats EXCEPT !.total_messages = @ + 1]
             /\ file_handle' = Append(file_handle,
                    [kind |-> "control_plane", length |-> Len(sock_content),
                     data |-> HexText("lower", "", <<>>, sock_content)])
    /\ UNCHANGED << qcat_mode, not_txt_vars >>

\* TxtWriter.write_up
WriteUp ==
    /\ TxtRoom
    /\ \E sock_content \in TxtSockContents :
        /\ stats' = [stats EXCEPT !.total_messages = @ + 1]
        /\ file_handle' = Append(file_handle,
                [kind |-> "user_plane", length |-> Len(sock_content),
                 data |-> HexText("lower", "", <<>>, sock_content)])
    /\ UNCHANGED << qcat_mode, not_txt_vars >>

\* TxtWriter.write_stdout_data
WriteStdoutData ==
    /\ TxtRoom
    /\ \E text \in TxtStdoutTexts :
        IF qcat_mode \/ text = <<>> THEN UNCHANGED file_handle
        ELSE file_handle' = Append(file_handle,
                [kind |-> "parsed_output", lines |-> extract_structured_lines(text)])
    /\ UNCHANGED << qcat_mode, stats, not_txt_vars >>

\* TxtWriter.write_parsed_data for a result with the given events (one dict
\* or a list), QCAT message and unknown log (each there or not)
write_parsed_data(event, qcat_msg, unknown_log) ==
    /\ stats' = [stats EXCEPT !.cellular_messages = @ + 1]
    /\ file_handle' = file_handle \o process_item(event)
            \o When(qcat_mode, [i \in DOMAIN qcat_msg |-> write_qcat_message(qcat_msg[i])])
            \o When(qcat_mode, [i \in DOMAIN unknown_log |-> write_unknown_log(unknown_log[i])])
    /\ UNCHANGED << qcat_mode, not_txt_vars >>

\* a result carrying one event, or a list of two
WriteParsedEvent ==
    /\ TxtRoom
    /\ \E decoder \in TxtDecoders, arg_bin \in TxtPayloads, several \in BOOLEAN :
        LET event == TxtDecode(decoder, arg_bin)
        IN  /\ event.kind = "event"
            /\ write_parsed_data(IF several THEN << event, parse_event_common(1, << 171 >>) >>
                                 ELSE << event >>, <<>>, <<>>)

\* a result carrying a QCAT message
WriteParsedQcatMsg ==
    /\ TxtRoom
    /\ \E body \in {<< 0, 0, 164, 0, 0, 2 >>, << 1, 144, 0 >>} :
        write_parsed_data(<<>>, << parse_ruim_debug(body).result >>, <<>>)

\* a result carrying an unknown log packet, or nothing the writer knows
WriteParsedUnknownLog ==
    /\ TxtRoom
    /\ \E unknown_log \in TxtUnknownLogs, there \in BOOLEAN :
        write_parsed_data(<<>>, <<>>, When(there, << unknown_log >>))

NextTxt ==
    \/ WriteCp
    \/ WriteUp
    \/ WriteStdoutData
    \/ WriteParsedEvent
    \/ WriteParsedQcatMsg
    \/ WriteParsedUnknownLog

\* the file device constructed with any list of names whose first file exists
InitFile ==
    /\ ParserInit
    /\ TcpInit
    /\ TxtInit(TRUE)
    /\ JsonInit
    /\ \E fnames \in FileLists : FileInit(fnames)
SpecFile == InitFile /\ [][NextFile]_vars

SpecJson == Init /\ [][NextJson]_vars

\* the writer in its default mode, and in either mode
SpecTxt == Init /\ [][NextTxt]_vars
InitTxtModes ==
    /\ ParserInit
    /\ TcpInit
    /\ FileInit(<< "a.qmdl" >>)
    /\ JsonInit
    /\ \E mode \in BOOLEAN : TxtInit(mode)
SpecTxtModes == InitTxtModes /\ [][NextTxt]_vars

SpecTcp == Init /\ [][NextTcp]_vars

\* the caller's thread and the accept thread, once it holds the lock, keep
\* running
SpecTcpLive == SpecTcp /\ WF_vars(CallerStep) /\ WF_vars(AcceptStore)

Next ==
    \/ GnssParse
    \/ QcatParse
    \/ RfParse
    \/ UmtsNasParse
    \/ ComprehensiveParse
    \/ WcdmaEnhancedParse
    \/ WcdmaSignalingParse
    \/ ForwardRecord

Spec == Init /\ [][Next]_vars

\* ============================================================ properties
\* C1: for every log-packet decoder registered in a category process table
\* and every body, of any length from 0 upward, one decode call ends in
\* exactly one outcome, a record or None, and never in a propagated exception.
C1_DecodeNeverRaises ==
    call # NoCall => outcome.kind \in {"None", "stdout", "qcat_msg"}

\* a QMI body of 12 bytes passes the length check, stops short of the 15-byte
\* header, and is still decoded to a record
C1_Witness ==
    /\ call.decoder = "parse_qmi_message"
    /\ Len(call.body) = 12
    /\ outcome.kind = "qcat_msg"

\* C2: every log-packet decoder that has a minimum-length precondition
\* returns None, without raising, for every body shorter than that minimum:
\* NMEA 8, GNSS position 20, XO frequency, GNSS measurement, RF ASDIV, the
\* four UMTS NAS decoders and CM phone event 4, Atuner detune, WCDMA flexible
\* RLC and MAC-ehs 8, WCDMA signaling 16, RUIM debug 2, QMI 12, PM policy 20.
C2_ShortBodyIsInsufficient ==
    LET minimum ==
            "parse_cgps_pdsm_nmea_report" :> 8 @@ "parse_gnss_position_report" :> 20
            @@ "parse_xo_frequency_estimation" :> 4 @@ "parse_gnss_measurement_report" :> 4
            @@ "parse_rf_asdiv" :> 4 @@ "parse_umts_nas_fplmn_list" :> 4
            @@ "parse_umts_nas_reg_state" :> 4 @@ "parse_umts_nas_mm_state" :> 4
            @@ "parse_umts_nas_gmm_state" :> 4 @@ "parse_cm_phone_event" :> 4
            @@ "parse_atuner_detune_info" :> 8 @@ "parse_wcdma_flexible_dl_rlc_am_pdu" :> 8
            @@ "parse_wcdma_mac_ehs_reassembly" :> 8 @@ "parse_wcdma_signaling_messages" :> 16
            @@ "parse_ruim_debug" :> 2 @@ "parse_qmi_message" :> 12
            @@ "parse_pm_policy_stats" :> 20
    IN  (call.decoder \in DOMAIN minimum /\ Len(call.body) < minimum[call.decoder])
            => outcome = None

\* a PM policy body one byte short of its minimum is rejected
C2_Witness ==
    /\ call.decoder = "parse_pm_policy_stats"
    /\ Len(call.body) = 19
    /\ outcome = None

\* C3: for every log decoder and every body at least as long as the decoder's
\* minimum-length precondition (0 where it has none), decoding returns a
\* record, not None: a body that passes the minimum-length check is never
\* rejected as a whole because a later field is missing.
C3_RecordOnceMinimumMet ==
    LET minimum ==
            "parse_cgps_pdsm_nmea_report" :> 8 @@ "parse_gnss_position_report" :> 20
            @@ "parse_xo_frequency_estimation" :> 4 @@ "parse_gnss_measurement_report" :> 4
            @@ "parse_rf_asdiv" :> 4 @@ "parse_umts_nas_fplmn_list" :> 4
            @@ "parse_umts_nas_reg_state" :> 4 @@ "parse_umts_nas_mm_state" :> 4
            @@ "parse_umts_nas_gmm_state" :> 4 @@ "parse_cm_phone_event" :> 4
            @@ "parse_atuner_detune_info" :> 8 @@ "parse_wcdma_flexible_dl_rlc_am_pdu" :> 8
            @@ "parse_wcdma_mac_ehs_reassembly" :> 8 @@ "parse_wcdma_signaling_messages" :> 16
            @@ "parse_ruim_debug" :> 2 @@ "parse_qmi_message" :> 12
            @@ "parse_pm_policy_stats" :> 20
        needed == IF call.decoder \in DOMAIN minimum THEN minimum[call.decoder] ELSE 0
    IN  (call # NoCall /\ Len(call.body) >= needed)
            => outcome.kind \in {"stdout", "qcat_msg"}

\* the offset, in the bytes after the QMI header, of the k-th TLV of a chain
\* whose entries are laid out back to back
RECURSIVE TlvOffset(_, _)
TlvOffset(tlvs, k) ==
    IF k = 1 THEN 0 ELSE TlvOffset(tlvs, k - 1) + 3 + tlvs[k - 1].length

\* C7: parse_qmi_message extracts the TLV chain that starts at body offset
\* 15: in body order, each TLV with type = its first byte, length = the
\* little-endian 16-bit value of the next two bytes, value = exactly the
\* following `length` bytes, consecutive TLVs contiguous, a zero-length TLV
\* with an empty value; the header followed by (0x01, len 2, AABB) and
\* (0x02, len 0) yields exactly these two entries.
C7_TlvChainExtracted ==
    (call.decoder = "parse_qmi_message" /\ Len(call.body) >= 15) =>
        /\ outcome.kind = "qcat_msg"
        /\ LET tlv_data == SubSeq(call.body, 16, Len(call.body))
               tlvs == outcome.result.tlvs
           IN  /\ \A k \in DOMAIN tlvs :
                     LET at == TlvOffset(tlvs, k)
                     IN  /\ at + 3 + tlvs[k].length <= Len(tlv_data)
                         /\ tlvs[k].type = tlv_data[at + 1]
                         /\ tlvs[k].length = tlv_data[at + 2] + 256 * tlv_data[at + 3]
                         /\ tlvs[k].value =
                                Hexlify(SubSeq(tlv_data, at + 4, at + 3 + tlvs[k].length))
                         /\ tlvs[k].length = 0 => tlvs[k].value = <<>>
               /\ tlv_data = QmiExampleTail =>
                     tlvs = << [type |-> 1, length |-> 2, value |-> <<"A", "A", "B", "B">>],
                               [type |-> 2, length |-> 0, value |-> <<>>] >>

\* the example body was decoded: two TLVs, the second of length zero
C7_Witness ==
    /\ call.decoder = "parse_qmi_message"
    /\ call.body = QmiHeader \o QmiExampleTail
    /\ outcome.kind = "qcat_msg"
    /\ Len(outcome.result.tlvs) = 2
    /\ outcome.result.tlvs[2].length = 0

\* C8: for every QMI body TLV parsing terminates; it stops without raising
\* at the first TLV whose declared length exceeds the bytes remaining (or when
\* fewer than 3 bytes remain), every TLV before that point is kept in the
\* record and nothing is emitted for the truncated TLV.
C8_TlvParsingStopsAtTruncation ==
    (call.decoder = "parse_qmi_message" /\ Len(call.body) >= 15) =>
        /\ outcome.kind = "qcat_msg"
        /\ LET tlv_data == SubSeq(call.body, 16, Len(call.body))
               tlvs == outcome.result.tlvs
               stop == TlvOffset(tlvs, Len(tlvs) + 1)
           IN  /\ stop <= Len(tlv_data)
               /\ \/ Len(tlv_data) - stop < 3
                  \/ stop + 3 + tlv_data[stop + 2] + 256 * tlv_data[stop + 3] > Len(tlv_data)
               /\ \A k \in DOMAIN tlvs :
                     /\ tlvs[k].type = tlv_data[TlvOffset(tlvs, k) + 1]
                     /\ Len(tlvs[k].value) = 2 * tlvs[k].length

\* one TLV was extracted and the next one declares more bytes than are left
C8_Witness ==
    /\ call.decoder = "parse_qmi_message"
    /\ outcome.kind = "qcat_msg"
    /\ Len(outcome.result.tlvs) = 1
    /\ LET tlv_data == SubSeq(call.body, 16, Len(call.body))
           stop == 3 + outcome.result.tlvs[1].length
       IN  /\ Len(tlv_data) - stop >= 3
           /\ stop + 3 + tlv_data[stop + 2] + 256 * tlv_data[stop + 3] > Len(tlv_data)

\* C9: for every 3-byte FPLMN entry (b0, b1, b2) the decoder emits the MCC
\* with the digits (b0 low, b0 high, b1 low); with the filler 0xF in the high
\* nibble of b1 the MNC is the 2-digit number (b2 low, b2 high), otherwise the
\* 3-digit number with the digits (b2 low, b2 high, b1 high); 13 F8 23
\* decodes to MCC 318, MNC 32.
C9_PlmnDigitOrder ==
    (call.decoder = "parse_umts_nas_fplmn_list" /\ outcome.kind = "stdout") =>
        \A i \in DOMAIN outcome.fields :
            outcome.fields[i].label = "FPLMN" =>
                LET at == 4 + 3 * (i - 4)
                    b0 == call.body[at + 1]
                    b1 == call.body[at + 2]
                    b2 == call.body[at + 3]
                    mnc == IF b1 \div 16 = 15
                           THEN (b2 % 16) * 10 + (b2 \div 16)
                           ELSE (b2 % 16) * 100 + (b2 \div 16) * 10 + (b1 \div 16)
                IN  /\ outcome.fields[i].text.mcc = << b0 % 16, b0 \div 16, b1 % 16 >>
                    /\ outcome.fields[i].text.mnc = FmtDec(mnc, 2)
                    /\ << b0, b1, b2 >> = PlmnExample =>
                           outcome.fields[i].text = [mcc |-> << 3, 1, 8 >>, mnc |-> << 3, 2 >>]

\* C10: PLMN decoding is round-trippable: two different valid BCD encodings
\* never produce the same emitted MCC/MNC pair.
C10_PlmnRoundTrip ==
    (/\ call.decoder = "parse_umts_nas_fplmn_list"
     /\ outcome.kind = "stdout"
     /\ Len(outcome.fields) = 5
     /\ outcome.fields[4].label = "FPLMN"
     /\ outcome.fields[5].label = "FPLMN") =>
        (outcome.fields[4].text = outcome.fields[5].text
            => SubSeq(call.body, 5, 7) = SubSeq(call.body, 8, 10))

\* C4: parse_unknown_log_packet returns a text block (never None, never an
\* exception) for every id and every body length, zero included, in every
\* state of DiagUnknownLogParser reachable by construction followed by any
\* sequence of update_parameters and register_unknown_log_id calls, the
\* freshly constructed state included.
C4_FallbackAlwaysDecodes ==
    call.decoder = "parse_unknown_log_packet" => outcome.kind = "stdout"

\* C5: for every event id absent from the event table and every payload, the
\* structured decoder parse_event_common and the header-building decoders
\* wrapped by build_header alike produce a record named UNKNOWN_EVENT_<id>
\* and do not raise.
C5_AbsentEventIdIsNamedUnknown ==
    LET table == IF call.parser = "common_event" THEN common_event_process
                 ELSE lte_event_process
        wrapped == {"parse_event_ipv6_sm_event", "parse_event_ipv6_prefix_update",
                    "parse_event_lte_rrc_timer_status", "parse_event_lte_rrc_state_change",
                    "parse_event_lte_rrc_dl_msg", "parse_event_lte_rrc_ul_msg",
                    "parse_event_lte_rrc_paging_drx_cycle", "parse_event_lte_nas_ota_msg",
                    "parse_event_lte_emm_esm_timer", "parse_event_lte_ml1_phr_report",
                    "parse_event_lte_rrc_state_change_trigger"}
    IN  (/\ call.parser \in {"common_event", "lte_event"}
         /\ call.id \notin DOMAIN table
         /\ call.decoder \in wrapped \cup {"parse_event_common"}) =>
            \/ /\ outcome.kind = "event"
               /\ outcome.type = UnknownEventName(call.id)
            \/ /\ outcome.kind = "encapsulated"
               /\ outcome.header.name = UnknownEventName(call.id)

\* C6: every event decoder that takes a byte payload (parse_event_common,
\* parse_event_diag_qshrink_id, parse_event_diag_process_name_id,
\* parse_event_lte_nas_msg) returns a record without raising for every
\* payload, the empty payload and payloads shorter than the fields the
\* decoder reads included (parse_event_lte_nas_msg on a registered id).
C6_BytePayloadNeverRaises ==
    (\/ call.decoder \in {"parse_event_common", "parse_event_diag_qshrink_id",
                          "parse_event_diag_process_name_id"}
     \/ /\ call.decoder = "parse_event_lte_nas_msg"
        /\ call.id \in DOMAIN lte_event_process) =>
        outcome.kind \in {"event", "encapsulated"}

\* C11: no message-type identifier is a key of the process table of more than
\* one topic-specific category module (comprehensive, GNSS, QCAT-message, RF,
\* UMTS-NAS, WCDMA-enhanced, WCDMA-signaling): the identifier of a packet a
\* category decodes is a key of no other category's table.
C11_CategoryKeysDisjoint ==
    LET tables == "gnss" :> gnss_process @@ "qcat" :> qcat_process @@ "rf" :> rf_process
                  @@ "umts_nas" :> umts_nas_process
                  @@ "comprehensive" :> comprehensive_process
                  @@ "wcdma_enhanced" :> wcdma_enhanced_process
                  @@ "wcdma_signaling" :> wcdma_signaling_process
    IN  call.parser \in DOMAIN tables =>
            \A other \in DOMAIN tables \ {call.parser} : call.id \notin DOMAIN tables[other]

\* C12: get_message_name returns, for every identifier that is not in the
\* display-name table, "Unknown Log 0x" followed by the identifier as exactly
\* 4 uppercase hexadecimal digits, and for every identifier in the table the
\* table's name (the table being the one update_parameters assigns); the
\* name is the one the fallback record's title carries.
C12_DisplayNameLookup ==
    (call.decoder = "parse_unknown_log_packet" /\ has_message_type_names) =>
        LET upper == << "0", "1", "2", "3", "4", "5", "6", "7",
                        "8", "9", "A", "B", "C", "D", "E", "F" >>
            id == call.id
            name == get_message_name(has_message_type_names, id)
        IN  /\ outcome.kind = "stdout"
            /\ outcome.fields[1].text.name = name
            /\ IF id \in DOMAIN message_type_names
               THEN name.known /\ name.name = message_type_names[id] /\ name.hex = <<>>
               ELSE /\ ~name.known
                    /\ name.name = "Unknown Log 0x"
                    /\ name.hex = << upper[((id \div 4096) % 16) + 1], upper[((id \div 256) % 16) + 1],
                                     upper[((id \div 16) % 16) + 1], upper[(id % 16) + 1] >>

\* the identifier 0x1234, which the table does not name, is labelled
\* "Unknown Log 0x1234"
C12_Witness ==
    /\ call.decoder = "parse_unknown_log_packet"
    /\ call.id = 4660
    /\ outcome.kind = "stdout"
    /\ ~outcome.fields[1].text.name.known
    /\ outcome.fields[1].text.name.hex = << "1", "2", "3", "4" >>

\* C13: for an identifier that is not deeply modelled and a body of length L,
\* the fallback record states Packet Length = L and dumps exactly the first
\* min(L, 64) bytes in order, 16 bytes per row (the last row may be shorter),
\* each row labelled with the byte offset of its first byte (0000, 0010, 0020,
\* 0030); the note "(N more bytes)" appears exactly when L > 64, with
\* N = L - 64; for L = 0 no dump row appears.
C13_FallbackHexDump ==
    LET deep == {5444, 4723, 6552, 6340, 6339, 7282, 7280, 7278,
                 16854, 16845, 16777, 16785, 16776, 4981}
        upper == << "0", "1", "2", "3", "4", "5", "6", "7",
                    "8", "9", "A", "B", "C", "D", "E", "F" >>
        dec(n) == IF n < 10 THEN << n >>
                  ELSE IF n < 100 THEN << n \div 10, n % 10 >>
                  ELSE << n \div 100, (n \div 10) % 10, n % 10 >>
        len == Len(call.body)
        shown == IF len < 64 THEN len ELSE 64
        WithLabel(label) == SelectSeq(outcome.fields, LAMBDA f : f.label = label)
        rows == WithLabel("Data")
        notes == WithLabel("more bytes")
        lengths == WithLabel("Packet Length")
    IN  (/\ call.decoder = "parse_unknown_log_packet"
         /\ call.id \notin deep
         /\ outcome.kind = "stdout") =>
            /\ Len(lengths) = 1 /\ lengths[1].text = dec(len)
            /\ Len(rows) = (shown + 15) \div 16
            /\ \A k \in DOMAIN rows :
                LET first == 16 * (k - 1)
                    count == IF shown - first < 16 THEN shown - first ELSE 16
                IN  /\ rows[k].text.offset = << "0", "0", upper[k], "0" >>
                    /\ Len(rows[k].text.line) = 2 * count
                    /\ \A j \in 1..count :
                        /\ rows[k].text.line[2 * j - 1] = upper[(call.body[first + j] \div 16) + 1]
                        /\ rows[k].text.line[2 * j] = upper[(call.body[first + j] % 16) + 1]
            /\ Len(notes) = (IF len > 64 THEN 1 ELSE 0)
            /\ len > 64 => notes[1].text = dec(len - 64)

\* a 66-byte body of an unnamed identifier: four full rows and "(2 more bytes)"
C13_Witness ==
    /\ call.decoder = "parse_unknown_log_packet"
    /\ call.id = 4660
    /\ Len(call.body) = 66
    /\ outcome.kind = "stdout"
    /\ Len(SelectSeq(outcome.fields, LAMBDA f : f.label = "Data")) = 4
    /\ \E i \in DOMAIN outcome.fields :
        outcome.fields[i].label = "more bytes" /\ outcome.fields[i].text = << 2 >>

\* C14: for message type 0x0000 and every body of at least 8 bytes,
\* parse_system_status reads the status flags as the little-endian 32-bit value
\* at offsets 4..7 and emits System State = ACTIVE exactly when bit 0 is set,
\* Power State = ON exactly when bit 1 is set and RF State = ENABLED exactly
\* when bit 2 is set, each independently of the other bits; the body
\* [1,0,0,0,7,0,0,0] yields Version = 1 and all three lines.
C14_SystemStatusFlags ==
    LET Has(label) == \E i \in DOMAIN outcome.fields : outcome.fields[i].label = label
        flags == SubSeq(call.body, 5, 8)
    IN  (call.decoder = "parse_system_status" /\ call.id = 0 /\ Len(call.body) >= 8) =>
            /\ outcome.kind = "stdout"
            /\ \E i \in DOMAIN outcome.fields :
                outcome.fields[i].label = "Status Flags" /\ outcome.fields[i].raw = flags
            /\ Has("System State = ACTIVE") <=> (flags[1] % 2 = 1)
            /\ Has("Power State = ON") <=> ((flags[1] \div 2) % 2 = 1)
            /\ Has("RF State = ENABLED") <=> ((flags[1] \div 4) % 2 = 1)
            /\ call.body = << 1, 0, 0, 0, 7, 0, 0, 0 >> =>
                /\ outcome.fields[2] = L("Version", << 1 >>, 1)
                /\ Has("System State = ACTIVE") /\ Has("Power State = ON")
                /\ Has("RF State = ENABLED")

\* status flags 0x00000002: the power line alone is emitted
C14_Witness ==
    /\ call.decoder = "parse_system_status"
    /\ SubSeq(call.body, 5, 8) = << 2, 0, 0, 0 >>
    /\ outcome.kind = "stdout"
    /\ \E i \in DOMAIN outcome.fields : outcome.fields[i].label = "Power State = ON"
    /\ ~\E i \in DOMAIN outcome.fields :
          outcome.fields[i].label \in {"System State = ACTIVE", "RF State = ENABLED"}

\* C15: for every raw value v in -32768..32767, a decoder that emits a power
\* level in dBm reads the field as a signed little-endian 16-bit integer and
\* emits v / 16, and a decoder that emits a temperature in degrees C reads the
\* field as a signed little-endian 16-bit integer and emits v / 10, each at
\* the number of decimals it prints (raw bytes F0 FF in a power field give
\* -1.00 dBm, not 4095.00).
C15_SignedFixedPointScaling ==
    LET dbm == {"Power Level", "RX Power", "TX Power", "RSSI", "RSSI Antenna 0",
                "RSSI Antenna 1", "Cell RSCP"}
        v(raw) == raw[1] + 256 * raw[2] - 65536 * (raw[2] \div 128)
        unit(places) == IF places = 1 THEN 10 ELSE 100
    IN  outcome.kind = "stdout" =>
            \A i \in DOMAIN outcome.fields :
                LET f == outcome.fields[i]
                IN  /\ f.label \in dbm =>
                        /\ Len(f.raw) = 2
                        /\ f.text.places \in {1, 2}
                        /\ 16 * f.text.scaled - unit(f.text.places) * v(f.raw) \in -8..8
                        /\ (f.raw = << 240, 255 >> /\ f.text.places = 2) => f.text.scaled = -100
                    /\ f.label = "Temperature" =>
                        /\ Len(f.raw) = 2
                        /\ f.text = [places |-> 1, scaled |-> v(f.raw)]

\* the power field F0 FF of an RF advanced status packet is printed as -1.00
C15_Witness ==
    /\ call.decoder = "parse_rf_advanced_status"
    /\ outcome.kind = "stdout"
    /\ \E i \in DOMAIN outcome.fields :
        /\ outcome.fields[i].label = "Power Level"
        /\ outcome.fields[i].raw = << 240, 255 >>
        /\ outcome.fields[i].text = [places |-> 2, scaled |-> -100]
    /\ \E i \in DOMAIN outcome.fields :
        /\ outcome.fields[i].label = "Temperature"
        /\ outcome.fields[i].text.scaled = -16

\* C16: in structured mode, for every event identifier present in an event
\* table, the record returned by the decoder registered for that identifier
\* has `type` equal to the canonical name registered for that identifier in
\* the same table and `id` equal to the identifier.
C16_StructuredTypeIsCanonicalName ==
    LET table == IF call.parser = "common_event" THEN common_event_process
                 ELSE lte_event_process
    IN  (/\ call.parser \in {"common_event", "lte_event"}
         /\ call.id \in DOMAIN table
         /\ table[call.id].decoder = call.decoder
         /\ outcome.kind = "event") =>
            /\ ~outcome.type.unknown
            /\ outcome.type.name = table[call.id].name
            /\ outcome.id = call.id

\* C17: for every payload made of a diag-id byte d followed by exactly 16
\* bytes, parse_event_diag_qshrink_id returns a record with type
\* EVENT_DIAG_QSHRINK_ID, id equal to the event id it was given, payload
\* "0x" + d as two uppercase hex digits + a space followed by the 16 bytes as
\* space-separated uppercase hex, and payload_str "Diag Id = d, GUID = g"
\* where g is five decimal blocks joined by "-", taken big-endian from bytes
\* 0-3, 4-5, 6-7, 8-9 and 10-15 of the 16; when the remainder is not 16 bytes
\* long the GUID part is empty.  (A decimal block of at most 15 digits and a
\* value below 2^48 are equal when they agree modulo four coprime numbers
\* whose product exceeds 10^15.)
C17_QshrinkRecord ==
    LET upper == << "0", "1", "2", "3", "4", "5", "6", "7",
                    "8", "9", "A", "B", "C", "D", "E", "F" >>
        moduli == {9973, 9967, 9949, 9941}
        RECURSIVE Horner(_, _, _, _)
        Horner(seq, base, m, acc) ==
            IF seq = <<>> THEN acc
            ELSE Horner(Tail(seq), base, m, (acc * base + Head(seq)) % m)
        dec(n) == IF n < 10 THEN << n >>
                  ELSE IF n < 100 THEN << n \div 10, n % 10 >>
                  ELSE << n \div 100, (n \div 10) % 10, n % 10 >>
        d == call.body[1]
        rest == SubSeq(call.body, 2, Len(call.body))
        bounds == << << 1, 4 >>, << 5, 6 >>, << 7, 8 >>, << 9, 10 >>, << 11, 16 >> >>
        IsBlock(digits, bytes) ==
            /\ Len(digits) \in 1..15
            /\ \A i \in DOMAIN digits : digits[i] \in 0..9
            /\ Len(digits) > 1 => digits[1] # 0
            /\ \A m \in moduli : Horner(digits, 10, m, 0) = Horner(bytes, 256, m, 0)
    IN  (call.decoder = "parse_event_diag_qshrink_id" /\ Len(call.body) >= 1) =>
            /\ outcome.kind = "event"
            /\ outcome.type = [unknown |-> FALSE, name |-> "EVENT_DIAG_QSHRINK_ID", id |-> <<>>]
            /\ outcome.id = call.id
            /\ outcome.payload.case = "upper" /\ outcome.payload.sep = " "
            /\ outcome.payload.prefix = << "0x", upper[(d \div 16) + 1], upper[(d % 16) + 1] >>
            /\ outcome.payload.groups =
                   [i \in 1..Len(rest) |-> << upper[(rest[i] \div 16) + 1], upper[(rest[i] % 16) + 1] >>]
            /\ outcome.payload_str.diag_id = dec(d)
            /\ IF Len(rest) = 16
               THEN /\ Len(outcome.payload_str.guid) = 5
                    /\ \A k \in 1..5 :
                        IsBlock(outcome.payload_str.guid[k],
                                SubSeq(rest, bounds[k][1], bounds[k][2]))
               ELSE outcome.payload_str.guid = <<>>

\* diag id 7 with the GUID DDFEB316-0AE3-A2C2-D24F-3EE7F2CF5AA3 of event 2865:
\* GUID = 3724456726-2787-41666-53839-69165932042915
C17_Witness ==
    /\ call.decoder = "parse_event_diag_qshrink_id"
    /\ call.id = 2865
    /\ call.body = QshrinkExample
    /\ outcome.kind = "event"
    /\ outcome.payload_str =
           [diag_id |-> << 7 >>,
            guid |-> << << 3, 7, 2, 4, 4, 5, 6, 7, 2, 6 >>, << 2, 7, 8, 7 >>,
                        << 4, 1, 6, 6, 6 >>, << 5, 3, 8, 3, 9 >>,
                        << 6, 9, 1, 6, 5, 9, 3, 2, 0, 4, 2, 9, 1, 5 >> >>]

\* C18: for every payload made of a diag-id byte d followed by n >= 0 name
\* bytes, parse_event_diag_process_name_id returns a record with type
\* EVENT_DIAG_PROCESS_NAME_ID, id equal to the event id it was given, payload
\* "0x" + d as two uppercase hex digits + a space + the name bytes as
\* space-separated uppercase hex, and payload_str equal to the name bytes
\* decoded as text, every name byte included and in order (an ASCII byte as
\* its character, a byte that is no UTF-8 as the replacement character).
C18_ProcessNameRecord ==
    LET upper == << "0", "1", "2", "3", "4", "5", "6", "7",
                    "8", "9", "A", "B", "C", "D", "E", "F" >>
        d == call.body[1]
        name == SubSeq(call.body, 2, Len(call.body))
    IN  (call.decoder = "parse_event_diag_process_name_id" /\ Len(call.body) >= 1) =>
            /\ outcome.kind = "event"
            /\ outcome.type = [unknown |-> FALSE, name |-> "EVENT_DIAG_PROCESS_NAME_ID",
                               id |-> <<>>]
            /\ outcome.id = call.id
            /\ outcome.payload.case = "upper" /\ outcome.payload.sep = " "
            /\ outcome.payload.prefix = << "0x", upper[(d \div 16) + 1], upper[(d % 16) + 1] >>
            /\ outcome.payload.groups =
                   [i \in 1..Len(name) |-> << upper[(name[i] \div 16) + 1], upper[(name[i] % 16) + 1] >>]
            /\ outcome.payload_str =
                   [i \in 1..Len(name) |-> IF name[i] < 128 THEN name[i] ELSE 65533]

\* diag id 7 and "msm/modem/wlan_pd" with its terminating NUL: the text keeps
\* all 18 characters, the NUL included
C18_Witness ==
    /\ call.decoder = "parse_event_diag_process_name_id"
    /\ call.id = 2866
    /\ call.body = ProcessNameExample
    /\ outcome.kind = "event"
    /\ Len(outcome.payload_str) = 18
    /\ outcome.payload_str[18] = 0
    /\ SubSeq(outcome.payload_str, 1, 3) = << 109, 115, 109 >>


\* C19: an enumeration lookup of a code that is not in the decoder's mapping
\* yields a label that marks the code as unknown and carries the code.  For
\* the channel lookup of parse_event_lte_rrc_dl_msg and
\* parse_event_lte_rrc_ul_msg: when arg1 is not a key of the decoder's channel
\* map, the channel label of the log content is neither one of the map's
\* labels nor a label that holds no code.
C19_UnmappedCodeKeepsItsValue ==
    LET channel_map == IF call.decoder = "parse_event_lte_rrc_dl_msg"
                       THEN channel_dl_map ELSE channel_ul_map
        codeless == {"Unknown"} \cup {channel_map[k] : k \in DOMAIN channel_map}
    IN  (/\ call.parser = "lte_event"
         /\ call.decoder \in {"parse_event_lte_rrc_dl_msg", "parse_event_lte_rrc_ul_msg"}
         /\ outcome.kind = "encapsulated"
         /\ call.args[1] \notin DOMAIN channel_map) =>
            outcome.content.channel \notin codeless


\* C20: for every body of at least 2 bytes, parse_ruim_debug labels the
\* record TX exactly when the direction byte is 0, and then, when at least 5
\* data bytes follow, the record carries the name the fixed table gives for
\* the instruction byte (the second data byte); it labels the record RX
\* exactly when the direction byte is 1, and then, when at least 2 data bytes
\* follow, the record carries the status-word text of the last two data bytes.
C20_RuimDirectionClassifies ==
    LET body == call.body
        n == Len(body)
        result == outcome.result
        Field(label) == { i \in DOMAIN result.fields : result.fields[i].label = label }
        names == 164 :> "SELECT" @@ 176 :> "READ BINARY" @@ 192 :> "GET RESPONSE"
    IN  (/\ call.parser = "qcat"
         /\ call.decoder = "parse_ruim_debug"
         /\ n >= 2) =>
            /\ outcome.kind = "qcat_msg"
            /\ result.direction = "TX" <=> body[1] = 0
            /\ result.direction = "RX" <=> body[1] = 1
            /\ (body[1] = 0 /\ n - 1 >= 5) =>
                    \E i \in Field("command") :
                        LET command == result.fields[i].text
                        IN  IF body[3] \in DOMAIN names
                            THEN command.known /\ command.name = names[body[3]]
                            ELSE ~command.known /\ command.ins = body[3]
            /\ (body[1] = 1 /\ n - 1 >= 2) =>
                    \E i \in Field("status") :
                        result.fields[i].text = parse_status_words(body[n - 1], body[n])


C23_ClientAccessUnderLock ==
    /\ [](/\ accept_pc = "store" => client_lock = "accept"
          /\ caller_pc \in {"read_copy", "read_eof_clear", "read_err_clear",
                            "write_send", "close_client"} => client_lock = "caller")
    /\ [][client' # client => client_lock # "free"]_vars

\* the accept thread is about to store the accepted connection under the
\* lock while a read on the caller's thread waits for the lock
C23_Witness ==
    /\ accept_pc = "store"
    /\ client_lock = "accept"
    /\ caller_pc = "read_lock"

\* C24: LiveTcpIO serves a single client: at most one connection is ever
\* accepted; once a receive returned b'' or failed, the client reference is
\* cleared and file_available is False whenever the caller's thread is
\* between two calls, file_available never becomes True again, every read
\* that returns afterwards returns b'', and every read in progress returns.
C24_SingleClientThenEof ==
    /\ [](io_history.accepted <= 1)
    /\ []((io_history.client_gone /\ caller_pc = "idle") =>
                (client = "none" /\ ~file_available))
    /\ []((io_history.client_gone /\ returned.op = "read") => returned.value = "eof")
    /\ [][~file_available => ~file_available']_vars
    /\ ((io_history.client_gone /\ caller_pc \notin {"idle", "write_lock", "write_send",
                                                      "close_lock", "close_client",
                                                      "close_server", "close_flag"})
            ~> (caller_pc = "idle"))

\* after the client has gone, a later read has returned b''
C24_Witness ==
    /\ io_history.client_gone
    /\ io_history.accepted = 1
    /\ caller_pc = "idle"
    /\ returned = [op |-> "read", value |-> "eof"]
    /\ peer = "left"
    /\ ~io_history.close_returned

\* C25: after close() has returned, every read that returns has returned b'':
\* no data of a client is delivered, whenever the accept thread stores the
\* connection it accepted.
C25_NoDataAfterClose ==
    (io_history.close_returned /\ returned.op = "read") => returned.value = "eof"


\* C26: every decoder that returns stdout ends each line with the newline
\* character: splitting the stdout of a record on newline, as
\* _extract_structured_data does, yields exactly the lines the decoder
\* emitted, one entry per line, for the WCDMA enhanced and WCDMA signaling
\* decoders as for the others.
C26_StdoutSplitsIntoItsLines ==
    (call.parser \in DOMAIN line_end /\ outcome.kind = "stdout") =>
        extract_structured_lines(stdout_text(call.parser, outcome.fields))
            = [i \in DOMAIN outcome.fields |->
                    << [kind |-> "text", field |-> outcome.fields[i]] >>]

\* C27: in qcat_mode TxtWriter writes only events, QCAT messages and unknown
\* logs: after the header no write_cp, write_up or write_stdout_data call has
\* written anything and total_messages is still 0
C27_QcatModeWritesOnlyParsedData ==
    qcat_mode =>
        /\ stats.total_messages = 0
        /\ \A i \in 2..Len(file_handle) :
              file_handle[i].kind \in {"event", "qcat_msg", "unknown_log"}

\* C28: every payload line _write_event wrote for a record of a structured
\* event decoder is upper-case two-digit hex bytes separated by single
\* spaces, at most 16 bytes on a line
C28_EventPayloadWrapped ==
    \A i \in DOMAIN file_handle :
        file_handle[i].kind = "event" =>
            \A k \in DOMAIN file_handle[i].lines :
                LET line == file_handle[i].lines[k]
                IN  /\ line.case = "upper"
                    /\ line.sep = " "
                    /\ Len(line.tokens) <= 16
                    /\ \A t \in DOMAIN line.tokens : Len(line.tokens[t]) = 2

\* C29: FileIO opens its files in the order given (the constructor the
\* first name, the k-th later open_next_file call name k+1), leaves the
\* caller's list as it was, keeps file_available True exactly until
\* open_next_file is called with no name left and never sets it again, and
\* read never raises: it returns b'' when no file is open or the read fails
C29_FilesOpenedInOrder ==
    /\ [](/\ fio_lists["caller"] = fio_history.given
          /\ Len(fio_history.opened) = Min(fio_history.calls, Len(fio_history.given))
          /\ fio_history.opened = SubSeq(fio_history.given, 1, Len(fio_history.opened))
          /\ fio_history.opened # <<>> => fio_fname = fio_history.opened[Len(fio_history.opened)]
          /\ (fio_returned.op = "open_next_file" /\ ~fio_returned.raised /\ fio_file_available)
                => fio_f = [name |-> fio_fname, kind |-> FileKind[fio_fname],
                            closed |-> FALSE, pos |-> 0]
          /\ fio_file_available <=> fio_history.calls <= Len(fio_history.given)
          /\ fio_returned.op = "read" =>
                /\ ~fio_returned.raised
                /\ (fio_returned.failed \/ fio_f.kind = "None" \/ fio_f.closed)
                        => fio_returned.data = <<>>)
    /\ [][fio_file_available' => fio_file_available]_vars

\* a list of three names was given, its third file is open after the second
\* later open_next_file call and a read has returned bytes of it
C29_Witness ==
    /\ Len(fio_history.given) = 3
    /\ fio_history.calls = 3
    /\ fio_fname = fio_history.given[3]
    /\ fio_fname # fio_history.given[1]
    /\ fio_returned.op = "read"
    /\ fio_returned.data # <<>>

\* C30: after any sequence of JsonWriter.write_parsed_data calls each
\* per-kind summary counter equals the number of records stored in the list
\* of the kind, whether a result carried one record or a list of them
C30_CountersMatchLists ==
    \A name \in JsonLists : json_data.summary[name] = Len(json_data.lists[name])

====
